---------------------------- MODULE Spec2Model ----------------------------
(***************************************************************************)
(* A model of the per-turn engine of umoria (src/src/io.c): the timed      *)
(* status effects, hit-point/mana regeneration, the command interpreter   *)
(* with its repeat count, and the key tables.                              *)
(*                                                                         *)
(* Several specifications share the variables below; each one drives one   *)
(* part of the engine and leaves the other variables alone:                *)
(*   SpecRegen    the regeneration routines on bounded vitals              *)
(*   SpecVitals   heroism, super-heroism and regeneration together         *)
(*   SpecEffects  the paired timer/status-bit effects of playDungeon       *)
(*   SpecCount    executeInputCommands: the repeat count, the control      *)
(*                escape, the run and the loop of playDungeon              *)
(*   SpecTimers   every step of a turn of playDungeon but the command     *)
(*   SpecTurn     the whole turn of playDungeon, the command included      *)
(*   SpecTables   valid_countcommand, original_commands and do_command as  *)
(*                functions of a key code                                  *)
(*   SpecInput    inkey and the routines that wait for a key               *)
(*   SpecEof      the same and the loops of playDungeon, with fairness,    *)
(*                on a terminal whose input has ended                      *)
(*   SpecJam      jamdoor, spike after spike                               *)
(***************************************************************************)
EXTENDS Integers, Sequences, FiniteSets, TLC

VARIABLES
    flags,              \* py.flags: the effect timers and related fields
    status,             \* py.flags.status: the set of status bits that are set
    misc,               \* py.misc: hit points, mana, to-hit and armour fields
    base,               \* the py.misc / py.flags values without any timed effect
    out,                \* what the last step emitted: messages, external calls,
                        \* and the activation/deactivation blocks it ran
    lastEvent,          \* per effect, the last block that ran: "on", "off" or "none"
    pc,                 \* the position of the program
    last,               \* the routine the last step ran
    regen_amount,       \* playDungeon's local regen_amount
    current_game_turn,  \* the global turn counter
    con_adj,            \* the value con_adj() returns (from the constitution stat)
    command_count,      \* the pending repeat count
    running_counter,    \* non-zero while running (find mode)
    character_is_dead,
    generate_new_level,
    raises,             \* number of external timer increases so far in the run
    use_roguelike_keys, \* the key scheme option
    lastInputCommand,   \* executeInputCommands' local: the key or command code
    counter,            \* executeInputCommands' local: the count being typed
    player_free_turn,   \* the last command took no game time
    keys_read,          \* number of keys read from the terminal so far
    typed,              \* the keys read for the command being entered
    eof_flag,           \* number of times the end of input was seen
    find_count,         \* playDungeon's local find_count (steps left in a run)
    globals             \* the globals of the dungeon: the depth, the wizard
                        \* flag, the light carried and its fuel, the queued
                        \* teleport, and those of the save file
                        \* (character_generated, character_saved, panic_save),
                        \* the inventory with inventory_count, the spikes
                        \* in it, and the object next to the player (door)

playerVars == <<flags, status, misc, out, command_count, running_counter,
                character_is_dead, generate_new_level, globals>>

inputVars == <<use_roguelike_keys, lastInputCommand, counter, player_free_turn,
               keys_read, typed, eof_flag, find_count>>

vars == <<flags, status, misc, base, out, lastEvent, pc, last, regen_amount,
          current_game_turn, con_adj, command_count, running_counter,
          character_is_dead, generate_new_level, raises, use_roguelike_keys,
          lastInputCommand, counter, player_free_turn, keys_read, typed,
          eof_flag, find_count, globals>>

--------------------------------------------------------------------------
(* Bounds of the model. *)

\* turns in one run of SpecEffects
MaxTurns == 3
\* turns in one run of SpecRegen and of SpecVitals
MaxRegenTurns == 2
\* external timer increases in one run
MaxRaises == 2
\* keys read from the terminal in one run of SpecCount
MaxKeys == 5
\* turns in one run of SpecCount
MaxCountTurns == 3
\* turns in one run of SpecTimers
MaxTimerTurns == 4
\* turns in one run of SpecTurn
MaxFullTurns == 2
\* keys read from the terminal in one run of SpecTurn
MaxTurnKeys == 3

--------------------------------------------------------------------------
(* Program constants. *)

MAX_SHORT == 32767
PLAYER_REGEN_FAINT == 33
PLAYER_REGEN_WEAK == 98
PLAYER_REGEN_NORMAL == 197
PLAYER_REGEN_HPBASE == 1442
PLAYER_REGEN_MNBASE == 524

\* a value stored into an int16_t field (two's complement wrap-around)
Int16(x) == ((x + 32768) % 65536) - 32768

--------------------------------------------------------------------------
(* The player state a routine works on, and the calls it makes. *)

\* The part of the program state the per-turn routines read and write.
Player ==
    [flags |-> flags, status |-> status, misc |-> misc, out |-> <<>>,
     command_count |-> command_count, running_counter |-> running_counter,
     character_is_dead |-> character_is_dead,
     generate_new_level |-> generate_new_level, globals |-> globals]

\* The state after a routine that leaves the player state p.
Commit(p) ==
    /\ flags' = p.flags
    /\ status' = p.status
    /\ misc' = p.misc
    /\ out' = p.out
    /\ command_count' = p.command_count
    /\ running_counter' = p.running_counter
    /\ character_is_dead' = p.character_is_dead
    /\ generate_new_level' = p.generate_new_level
    /\ globals' = p.globals

Emit(p, item) == [p EXCEPT !.out = Append(@, item)]

printMessage(p, text) == Emit(p, <<"msg", text>>)

\* The start of an effect's activation block / deactivation block.
On(p, effect) == Emit(p, <<"on", effect>>)
Off(p, effect) == Emit(p, <<"off", effect>>)

\* change_speed(num)
change_speed(p, num) ==
    Emit([p EXCEPT !.flags.speed = Int16(@ + num), !.status = @ \cup {"PY_SPEED"}],
         <<"change_speed", num>>)

\* search_off()
search_off(p) ==
    change_speed([p EXCEPT !.status = @ \ {"PY_SEARCH"}], -1)

\* rest_off()
rest_off(p) ==
    Emit([p EXCEPT !.flags.rest = 0, !.status = @ \ {"PY_REST"}], <<"rest_off">>)

\* disturb(s, l): s stops searching too, l (or running) ends the run.
disturb(p, s, l) ==
    LET p0 == Emit([p EXCEPT !.command_count = 0], <<"disturb", s, l>>)
        p1 == IF s # 0 /\ "PY_SEARCH" \in p0.status THEN search_off(p0) ELSE p0
        p2 == IF p1.flags.rest # 0 THEN rest_off(p1) ELSE p1
    IN  IF l # 0 \/ p2.running_counter # 0
        THEN [p2 EXCEPT !.running_counter = 0]
        ELSE p2

\* take_hit(damage, from)
take_hit(p, damage) ==
    LET d == IF p.flags.invuln > 0 THEN 0 ELSE damage
        p1 == Emit([p EXCEPT !.misc.chp = Int16(@ - d)], <<"take_hit", damage>>)
    IN  IF p1.misc.chp < 0
        THEN [p1 EXCEPT !.character_is_dead = TRUE, !.generate_new_level = TRUE]
        ELSE p1

\* updateMonsters(false): relight the monsters without moving them.
updateMonsters(p) == Emit(p, <<"updateMonsters", FALSE>>)

--------------------------------------------------------------------------
(* FixedPointRegenerator: regenhp, regenmana, playerUpdateRegeneration. *)

\* Mutant: the base constant is left out of the accumulation.
regenhp_nobase(m, percent) ==
    LET new_chp == m.mhp * percent
        chp1 == Int16(m.chp + (new_chp \div 65536))
        chp2 == IF chp1 < 0 /\ m.chp > 0 THEN MAX_SHORT ELSE chp1
        new_chp_frac == (new_chp % 65536) + m.chp_frac
        carry == new_chp_frac >= 65536
        chp3 == IF carry THEN Int16(chp2 + 1) ELSE chp2
        frac3 == IF carry THEN new_chp_frac - 65536 ELSE new_chp_frac
    IN  IF chp3 >= m.mhp
        THEN [m EXCEPT !.chp = m.mhp, !.chp_frac = 0]
        ELSE [m EXCEPT !.chp = chp3, !.chp_frac = frac3]

\* regenhp(percent) applied to py.misc = m; the result is the new py.misc.
regenhp(m, percent) ==
    LET old_chp == m.chp
        new_chp == m.mhp * percent + PLAYER_REGEN_HPBASE
        \* py.misc.chp += new_chp >> 16, stored back into an int16_t
        chp1 == Int16(m.chp + (new_chp \div 65536))
        \* check for overflow
        chp2 == IF chp1 < 0 /\ old_chp > 0 THEN MAX_SHORT ELSE chp1
        \* mod 65536
        new_chp_frac == (new_chp % 65536) + m.chp_frac
        carry == new_chp_frac >= 65536
        chp3 == IF carry THEN Int16(chp2 + 1) ELSE chp2
        frac3 == IF carry THEN new_chp_frac - 65536 ELSE new_chp_frac
    IN  IF chp3 >= m.mhp
        THEN [m EXCEPT !.chp = m.mhp, !.chp_frac = 0]
        ELSE [m EXCEPT !.chp = chp3, !.chp_frac = frac3]

\* regenmana(percent) applied to py.misc = m.
regenmana(m, percent) ==
    LET old_cmana == m.cmana
        new_mana == m.mana * percent + PLAYER_REGEN_MNBASE
        cmana1 == Int16(m.cmana + (new_mana \div 65536))
        cmana2 == IF cmana1 < 0 /\ old_cmana > 0 THEN MAX_SHORT ELSE cmana1
        new_mana_frac == (new_mana % 65536) + m.cmana_frac
        carry == new_mana_frac >= 65536
        cmana3 == IF carry THEN Int16(cmana2 + 1) ELSE cmana2
        frac3 == IF carry THEN new_mana_frac - 65536 ELSE new_mana_frac
    IN  IF cmana3 >= m.mana
        THEN [m EXCEPT !.cmana = m.mana, !.cmana_frac = 0]
        ELSE [m EXCEPT !.cmana = cmana3, !.cmana_frac = frac3]

\* The percent playerUpdateRegeneration passes on for a given regen amount.
RegenPercent(f, st, amount) ==
    LET a1 == IF f.regenerate THEN (amount * 3) \div 2 ELSE amount
    IN  IF "PY_SEARCH" \in st \/ f.rest # 0 THEN a1 * 2 ELSE a1

\* Mutant: HP regeneration is not gated on poison.
RegenHpGate_nopoison(f, m) == m.chp < m.mhp

\* The guard of the regenhp call in playerUpdateRegeneration.
RegenHpGate(f, m) == f.poisoned < 1 /\ m.chp < m.mhp

\* The guard of the regenmana call in playerUpdateRegeneration.
RegenManaGate(f, m) == m.cmana < m.mana

\* playerUpdateRegeneration(amount): the new py.misc.
UpdateRegeneration(f, st, m, amount) ==
    LET percent == RegenPercent(f, st, amount)
        m1 == IF RegenHpGate(f, m) THEN regenhp(m, percent) ELSE m
    IN  IF RegenManaGate(f, m1) THEN regenmana(m1, percent) ELSE m1


--------------------------------------------------------------------------
(* StatusEffectEngine: heroism and super-heroism. *)

\* Mutant: the activation raises max HP but not current HP.
playerActivateHeroism_nochp(p) ==
    LET p1 == disturb([p EXCEPT !.status = @ \cup {"PY_HERO"}], 0, 0)
        p2 == [p1 EXCEPT !.misc.mhp = Int16(@ + 10),
                         !.misc.bth = Int16(@ + 12), !.misc.bthb = Int16(@ + 12)]
    IN  printMessage(p2, "You feel like a HERO!")

playerActivateHeroism(p) ==
    LET p1 == disturb([p EXCEPT !.status = @ \cup {"PY_HERO"}], 0, 0)
        p2 == [p1 EXCEPT !.misc.mhp = Int16(@ + 10), !.misc.chp = Int16(@ + 10),
                         !.misc.bth = Int16(@ + 12), !.misc.bthb = Int16(@ + 12)]
    IN  printMessage(p2, "You feel like a HERO!")

\* Mutant: the to-hit bonus is not taken back.
playerDisableHeroism_keepbth(p) ==
    LET p1 == disturb([p EXCEPT !.status = @ \ {"PY_HERO"}], 0, 0)
        p2 == [p1 EXCEPT !.misc.mhp = Int16(@ - 10)]
        p3 == IF p2.misc.chp > p2.misc.mhp
              THEN [p2 EXCEPT !.misc.chp = p2.misc.mhp, !.misc.chp_frac = 0]
              ELSE p2
        p4 == [p3 EXCEPT !.misc.bthb = Int16(@ - 12)]
    IN  printMessage(p4, "The heroism wears off.")

playerDisableHeroism(p) ==
    LET p1 == disturb([p EXCEPT !.status = @ \ {"PY_HERO"}], 0, 0)
        p2 == [p1 EXCEPT !.misc.mhp = Int16(@ - 10)]
        p3 == IF p2.misc.chp > p2.misc.mhp
              THEN [p2 EXCEPT !.misc.chp = p2.misc.mhp, !.misc.chp_frac = 0]
              ELSE p2
        p4 == [p3 EXCEPT !.misc.bth = Int16(@ - 12), !.misc.bthb = Int16(@ - 12)]
    IN  printMessage(p4, "The heroism wears off.")

playerActivateSuperHeroism(p) ==
    LET p1 == disturb([p EXCEPT !.status = @ \cup {"PY_SHERO"}], 0, 0)
        p2 == [p1 EXCEPT !.misc.mhp = Int16(@ + 20), !.misc.chp = Int16(@ + 20),
                         !.misc.bth = Int16(@ + 24), !.misc.bthb = Int16(@ + 24)]
    IN  printMessage(p2, "You feel like a SUPER HERO!")

\* Mutant: current HP is not clamped to the lowered maximum.
playerDisableSuperHeroism_noclamp(p) ==
    LET p1 == disturb([p EXCEPT !.status = @ \ {"PY_SHERO"}], 0, 0)
        p2 == [p1 EXCEPT !.misc.mhp = Int16(@ - 20)]
        p4 == [p2 EXCEPT !.misc.bth = Int16(@ - 24), !.misc.bthb = Int16(@ - 24)]
    IN  printMessage(p4, "The super heroism wears off.")

playerDisableSuperHeroism(p) ==
    LET p1 == disturb([p EXCEPT !.status = @ \ {"PY_SHERO"}], 0, 0)
        p2 == [p1 EXCEPT !.misc.mhp = Int16(@ - 20)]
        p3 == IF p2.misc.chp > p2.misc.mhp
              THEN [p2 EXCEPT !.misc.chp = p2.misc.mhp, !.misc.chp_frac = 0]
              ELSE p2
        p4 == [p3 EXCEPT !.misc.bth = Int16(@ - 24), !.misc.bthb = Int16(@ - 24)]
    IN  printMessage(p4, "The super heroism wears off.")

\* The heroism half of playerUpdateHeroStatus.
UpdateHeroism(p) ==
    IF p.flags.hero > 0
    THEN LET p1 == IF "PY_HERO" \notin p.status
                   THEN playerActivateHeroism(On(p, "hero"))
                   ELSE p
             p2 == [p1 EXCEPT !.flags.hero = Int16(@ - 1)]
         IN  IF p2.flags.hero = 0
             THEN playerDisableHeroism(Off(p2, "hero"))
             ELSE p2
    ELSE p

\* The super-heroism half of playerUpdateHeroStatus.
UpdateSuperHeroism(p) ==
    IF p.flags.shero > 0
    THEN LET p1 == IF "PY_SHERO" \notin p.status
                   THEN playerActivateSuperHeroism(On(p, "shero"))
                   ELSE p
             p2 == [p1 EXCEPT !.flags.shero = Int16(@ - 1)]
         IN  IF p2.flags.shero = 0
             THEN playerDisableSuperHeroism(Off(p2, "shero"))
             ELSE p2
    ELSE p

UpdateHeroStatus(p) == UpdateSuperHeroism(UpdateHeroism(p))

--------------------------------------------------------------------------
(* StatusEffectEngine: blindness, confusion, fear, poison. *)

UpdateBlindness(p) ==
    IF p.flags.blind <= 0
    THEN p
    ELSE LET p1 == IF "PY_BLIND" \notin p.status
                   THEN updateMonsters(disturb(
                            [On(p, "blind") EXCEPT !.status = @ \cup {"PY_BLIND"}], 0, 1))
                   ELSE p
             p2 == [p1 EXCEPT !.flags.blind = Int16(@ - 1)]
         IN  IF p2.flags.blind = 0
             THEN printMessage(updateMonsters(disturb(
                      [Off(p2, "blind") EXCEPT !.status = @ \ {"PY_BLIND"}], 0, 1)),
                      "The veil of darkness lifts.")
             ELSE p2

UpdateConfusion(p) ==
    IF p.flags.confused <= 0
    THEN p
    ELSE LET p1 == IF "PY_CONFUSED" \notin p.status
                   THEN [On(p, "confused") EXCEPT !.status = @ \cup {"PY_CONFUSED"}]
                   ELSE p
             p2 == [p1 EXCEPT !.flags.confused = Int16(@ - 1)]
         IN  IF p2.flags.confused = 0
             THEN LET p3 == printMessage(
                              [Off(p2, "confused") EXCEPT !.status = @ \ {"PY_CONFUSED"}],
                              "You feel less confused now.")
                  IN  IF p3.flags.rest # 0 THEN rest_off(p3) ELSE p3
             ELSE p2

\* Mutant: heroism does not keep a new fear from showing.
UpdateFearState_shown(p) ==
    IF p.flags.afraid <= 0
    THEN p
    ELSE LET p1 == IF "PY_FEAR" \notin p.status
                   THEN [On(p, "afraid") EXCEPT !.status = @ \cup {"PY_FEAR"}]
                   ELSE IF p.flags.shero + p.flags.hero > 0
                        THEN [p EXCEPT !.flags.afraid = 1]
                        ELSE p
             p2 == [p1 EXCEPT !.flags.afraid = Int16(@ - 1)]
         IN  IF p2.flags.afraid = 0
             THEN disturb(printMessage(
                     [Off(p2, "afraid") EXCEPT !.status = @ \ {"PY_FEAR"}],
                     "You feel bolder now."), 0, 0)
             ELSE p2

\* Mutant: under heroism an active fear is zeroed like a new one, not set to 1.
UpdateFearState_zero(p) ==
    IF p.flags.afraid <= 0
    THEN p
    ELSE LET p1 == IF "PY_FEAR" \notin p.status
                   THEN IF p.flags.shero + p.flags.hero > 0
                        THEN [p EXCEPT !.flags.afraid = 0]
                        ELSE [On(p, "afraid") EXCEPT !.status = @ \cup {"PY_FEAR"}]
                   ELSE IF p.flags.shero + p.flags.hero > 0
                        THEN [p EXCEPT !.flags.afraid = 0]
                        ELSE p
             p2 == [p1 EXCEPT !.flags.afraid = Int16(@ - 1)]
         IN  IF p2.flags.afraid = 0
             THEN disturb(printMessage(
                     [Off(p2, "afraid") EXCEPT !.status = @ \ {"PY_FEAR"}],
                     "You feel bolder now."), 0, 0)
             ELSE p2

UpdateFearState(p) ==
    IF p.flags.afraid <= 0
    THEN p
    ELSE LET p1 == IF "PY_FEAR" \notin p.status
                   THEN IF p.flags.shero + p.flags.hero > 0
                        THEN [p EXCEPT !.flags.afraid = 0]
                        ELSE [On(p, "afraid") EXCEPT !.status = @ \cup {"PY_FEAR"}]
                   ELSE IF p.flags.shero + p.flags.hero > 0
                        THEN [p EXCEPT !.flags.afraid = 1]
                        ELSE p
             p2 == [p1 EXCEPT !.flags.afraid = Int16(@ - 1)]
         IN  IF p2.flags.afraid = 0
             THEN disturb(printMessage(
                     [Off(p2, "afraid") EXCEPT !.status = @ \ {"PY_FEAR"}],
                     "You feel bolder now."), 0, 0)
             ELSE p2

\* Mutant: the better constitutions are hurt on the turns between.
PoisonDamage_between(adj, turn) ==
    CASE adj = -4 -> 4
      [] adj \in {-3, -2} -> 3
      [] adj = -1 -> 2
      [] adj = 0 -> 1
      [] adj \in {1, 2, 3} -> (IF turn % 2 = 1 THEN 1 ELSE 0)
      [] adj \in {4, 5} -> (IF turn % 3 = 1 THEN 1 ELSE 0)
      [] adj = 6 -> (IF turn % 4 = 1 THEN 1 ELSE 0)
      [] OTHER -> 0

\* The damage of one poison tick, from con_adj() and the turn counter.
PoisonDamage(adj, turn) ==
    CASE adj = -4 -> 4
      [] adj \in {-3, -2} -> 3
      [] adj = -1 -> 2
      [] adj = 0 -> 1
      [] adj \in {1, 2, 3} -> (IF turn % 2 = 0 THEN 1 ELSE 0)
      [] adj \in {4, 5} -> (IF turn % 3 = 0 THEN 1 ELSE 0)
      [] adj = 6 -> (IF turn % 4 = 0 THEN 1 ELSE 0)
      [] OTHER -> 0

UpdatePoisonedState(p, adj, turn) ==
    IF p.flags.poisoned <= 0
    THEN p
    ELSE LET p1 == IF "PY_POISONED" \notin p.status
                   THEN [On(p, "poisoned") EXCEPT !.status = @ \cup {"PY_POISONED"}]
                   ELSE p
             p2 == [p1 EXCEPT !.flags.poisoned = Int16(@ - 1)]
         IN  IF p2.flags.poisoned = 0
             THEN disturb(printMessage(
                     [Off(p2, "poisoned") EXCEPT !.status = @ \ {"PY_POISONED"}],
                     "You feel better."), 0, 0)
             ELSE disturb(take_hit(p2, PoisonDamage(adj, turn)), 1, 0)

--------------------------------------------------------------------------
(* StatusEffectEngine: speed, invulnerability, blessing, detection, infra-vision. *)

UpdateFastness(p) ==
    IF p.flags.fast <= 0
    THEN p
    ELSE LET p1 == IF "PY_FAST" \notin p.status
                   THEN disturb(printMessage(change_speed(
                            [On(p, "fast") EXCEPT !.status = @ \cup {"PY_FAST"}], -1),
                            "You feel yourself moving faster."), 0, 0)
                   ELSE p
             p2 == [p1 EXCEPT !.flags.fast = Int16(@ - 1)]
         IN  IF p2.flags.fast = 0
             THEN disturb(printMessage(change_speed(
                      [Off(p2, "fast") EXCEPT !.status = @ \ {"PY_FAST"}], 1),
                      "You feel yourself slow down."), 0, 0)
             ELSE p2

UpdateSlowness(p) ==
    IF p.flags.slow <= 0
    THEN p
    ELSE LET p1 == IF "PY_SLOW" \notin p.status
                   THEN disturb(printMessage(change_speed(
                            [On(p, "slow") EXCEPT !.status = @ \cup {"PY_SLOW"}], 1),
                            "You feel yourself moving slower."), 0, 0)
                   ELSE p
             p2 == [p1 EXCEPT !.flags.slow = Int16(@ - 1)]
         IN  IF p2.flags.slow = 0
             THEN disturb(printMessage(change_speed(
                      [Off(p2, "slow") EXCEPT !.status = @ \ {"PY_SLOW"}], -1),
                      "You feel yourself speed up."), 0, 0)
             ELSE p2

UpdateSpeed(p) == UpdateSlowness(UpdateFastness(p))

\* Mutant: the activation block is not guarded by the status bit.
UpdateInvulnerability_retrigger(p) ==
    IF p.flags.invuln <= 0
    THEN p
    ELSE LET p0 == disturb([On(p, "invuln") EXCEPT !.status = @ \cup {"PY_INVULN"}], 0, 0)
             p1 == printMessage([p0 EXCEPT !.misc.pac = Int16(@ + 100),
                                            !.misc.dis_ac = Int16(@ + 100)],
                                "Your skin turns into steel!")
             p2 == [p1 EXCEPT !.flags.invuln = Int16(@ - 1)]
         IN  IF p2.flags.invuln = 0
             THEN LET q0 == disturb(
                              [Off(p2, "invuln") EXCEPT !.status = @ \ {"PY_INVULN"}], 0, 0)
                  IN  printMessage([q0 EXCEPT !.misc.pac = Int16(@ - 100),
                                                !.misc.dis_ac = Int16(@ - 100)],
                                   "Your skin returns to normal.")
             ELSE p2

UpdateInvulnerability(p) ==
    IF p.flags.invuln <= 0
    THEN p
    ELSE LET p1 == IF "PY_INVULN" \notin p.status
                   THEN LET p0 == disturb(
                                [On(p, "invuln") EXCEPT !.status = @ \cup {"PY_INVULN"}], 0, 0)
                        IN  printMessage([p0 EXCEPT !.misc.pac = Int16(@ + 100),
                                                      !.misc.dis_ac = Int16(@ + 100)],
                                         "Your skin turns into steel!")
                   ELSE p
             p2 == [p1 EXCEPT !.flags.invuln = Int16(@ - 1)]
         IN  IF p2.flags.invuln = 0
             THEN LET q0 == disturb(
                              [Off(p2, "invuln") EXCEPT !.status = @ \ {"PY_INVULN"}], 0, 0)
                  IN  printMessage([q0 EXCEPT !.misc.pac = Int16(@ - 100),
                                                !.misc.dis_ac = Int16(@ - 100)],
                                   "Your skin returns to normal.")
             ELSE p2

UpdateBlessedness(p) ==
    IF p.flags.blessed <= 0
    THEN p
    ELSE LET p1 == IF "PY_BLESSED" \notin p.status
                   THEN LET p0 == disturb(
                                [On(p, "blessed") EXCEPT !.status = @ \cup {"PY_BLESSED"}], 0, 0)
                        IN  printMessage(
                                [p0 EXCEPT !.misc.bth = Int16(@ + 5), !.misc.bthb = Int16(@ + 5),
                                           !.misc.pac = Int16(@ + 2), !.misc.dis_ac = Int16(@ + 2)],
                                "You feel righteous!")
                   ELSE p
             p2 == [p1 EXCEPT !.flags.blessed = Int16(@ - 1)]
         IN  IF p2.flags.blessed = 0
             THEN LET q0 == disturb(
                              [Off(p2, "blessed") EXCEPT !.status = @ \ {"PY_BLESSED"}], 0, 0)
                  IN  printMessage(
                          [q0 EXCEPT !.misc.bth = Int16(@ - 5), !.misc.bthb = Int16(@ - 5),
                                     !.misc.pac = Int16(@ - 2), !.misc.dis_ac = Int16(@ - 2)],
                          "The prayer has expired.")
             ELSE p2

\* calc_bonuses(), as far as this engine reads its result: see_inv is
\* recomputed from the worn items (see_inv_item) and the running timer.
calc_bonuses(p, see_inv_item) ==
    Emit([p EXCEPT !.flags.see_inv = see_inv_item \/ p.flags.detect_inv > 0],
         <<"calc_bonuses">>)

UpdateDetectInvisible(p, see_inv_item) ==
    IF p.flags.detect_inv <= 0
    THEN p
    ELSE LET p1 == IF "PY_DET_INV" \notin p.status
                   THEN updateMonsters(
                            [On(p, "detect_inv") EXCEPT !.status = @ \cup {"PY_DET_INV"},
                                                        !.flags.see_inv = TRUE])
                   ELSE p
             p2 == [p1 EXCEPT !.flags.detect_inv = Int16(@ - 1)]
         IN  IF p2.flags.detect_inv = 0
             THEN updateMonsters(calc_bonuses(
                      [Off(p2, "detect_inv") EXCEPT !.status = @ \ {"PY_DET_INV"}],
                      see_inv_item))
             ELSE p2

UpdateInfraVision(p) ==
    IF p.flags.tim_infra <= 0
    THEN p
    ELSE LET p1 == IF "PY_TIM_INFRA" \notin p.status
                   THEN updateMonsters(
                            [On(p, "tim_infra") EXCEPT !.status = @ \cup {"PY_TIM_INFRA"},
                                                       !.flags.see_infra = Int16(@ + 1)])
                   ELSE p
             p2 == [p1 EXCEPT !.flags.tim_infra = Int16(@ - 1)]
         IN  IF p2.flags.tim_infra = 0
             THEN updateMonsters(
                      [Off(p2, "tim_infra") EXCEPT !.status = @ \ {"PY_TIM_INFRA"},
                                                   !.flags.see_infra = Int16(@ - 1)])
             ELSE p2

--------------------------------------------------------------------------
(* TurnScheduler: the steps of one turn of playDungeon. Each step takes the   *)
(* position it hands over to, so that a specification can run the part of the *)
(* turn it is about.                                                          *)

Effects ==
    {"hero", "shero", "blind", "confused", "afraid", "poisoned", "fast", "slow",
     "invuln", "blessed", "detect_inv", "tim_infra"}

\* The status bit paired with each timer.
Bit(e) ==
    CASE e = "hero" -> "PY_HERO"
      [] e = "shero" -> "PY_SHERO"
      [] e = "blind" -> "PY_BLIND"
      [] e = "confused" -> "PY_CONFUSED"
      [] e = "afraid" -> "PY_FEAR"
      [] e = "poisoned" -> "PY_POISONED"
      [] e = "fast" -> "PY_FAST"
      [] e = "slow" -> "PY_SLOW"
      [] e = "invuln" -> "PY_INVULN"
      [] e = "blessed" -> "PY_BLESSED"
      [] e = "detect_inv" -> "PY_DET_INV"
      [] e = "tim_infra" -> "PY_TIM_INFRA"

\* The activation/deactivation blocks of effect e in a step's output, in order.
Blocks(o, e) ==
    SelectSeq(o, LAMBDA item : item[1] \in {"on", "off"} /\ item[2] = e)

\* A routine ran at position `name`, left the player state p and hands over
\* to position `next`.
Ran(name, p, next) ==
    /\ pc = name
    /\ Commit(p)
    /\ lastEvent' = [e \in Effects |->
                        LET b == Blocks(p.out, e)
                        IN  IF b = <<>> THEN lastEvent[e] ELSE b[Len(b)][1]]
    /\ last' = name
    /\ pc' = next

\* Increment turn counter
StartTurn(next, limit) ==
    /\ pc = "turn"
    /\ current_game_turn < limit
    /\ current_game_turn' = current_game_turn + 1
    /\ Ran("turn", Player, next)
    /\ UNCHANGED <<inputVars, base, regen_amount, con_adj, raises>>

playerUpdateHeroStatus(next) ==
    /\ Ran("playerUpdateHeroStatus", UpdateHeroStatus(Player), next)
    /\ UNCHANGED <<inputVars, base, regen_amount, current_game_turn, con_adj, raises>>

\* The regen classes playerFoodConsumption can return.
RegenAmounts == {0, PLAYER_REGEN_FAINT, PLAYER_REGEN_WEAK, PLAYER_REGEN_NORMAL}

\* playerFoodConsumption yields the regen class, playerUpdateRegeneration
\* applies it (any class, where the food consumption is not part of the turn).
playerUpdateRegeneration(next) ==
    /\ \E amount \in (IF last = "playerFoodConsumption" THEN {regen_amount}
                      ELSE RegenAmounts) :
          /\ regen_amount' = amount
          /\ Ran("playerUpdateRegeneration",
                 [Player EXCEPT !.misc = UpdateRegeneration(flags, status, misc, amount)],
                 next)
    /\ UNCHANGED <<inputVars, base, current_game_turn, con_adj, raises>>

playerUpdateBlindness(next) ==
    /\ Ran("playerUpdateBlindness", UpdateBlindness(Player), next)
    /\ UNCHANGED <<inputVars, base, regen_amount, current_game_turn, con_adj, raises>>

playerUpdateConfusion(next) ==
    /\ Ran("playerUpdateConfusion", UpdateConfusion(Player), next)
    /\ UNCHANGED <<inputVars, base, regen_amount, current_game_turn, con_adj, raises>>

playerUpdateFearState(next) ==
    /\ Ran("playerUpdateFearState", UpdateFearState(Player), next)
    /\ UNCHANGED <<inputVars, base, regen_amount, current_game_turn, con_adj, raises>>

playerUpdatePoisonedState(next) ==
    /\ Ran("playerUpdatePoisonedState",
           UpdatePoisonedState(Player, con_adj, current_game_turn), next)
    /\ UNCHANGED <<inputVars, base, regen_amount, current_game_turn, con_adj, raises>>

playerUpdateSpeed(next) ==
    /\ Ran("playerUpdateSpeed", UpdateSpeed(Player), next)
    /\ UNCHANGED <<inputVars, base, regen_amount, current_game_turn, con_adj, raises>>

playerUpdateInvulnerability(next) ==
    /\ Ran("playerUpdateInvulnerability", UpdateInvulnerability(Player), next)
    /\ UNCHANGED <<inputVars, base, regen_amount, current_game_turn, con_adj, raises>>

playerUpdateBlessedness(next) ==
    /\ Ran("playerUpdateBlessedness", UpdateBlessedness(Player), next)
    /\ UNCHANGED <<inputVars, base, regen_amount, current_game_turn, con_adj, raises>>

playerUpdateDetectInvisible(next) ==
    /\ Ran("playerUpdateDetectInvisible",
           UpdateDetectInvisible(Player, base.see_inv), next)
    /\ UNCHANGED <<inputVars, base, regen_amount, current_game_turn, con_adj, raises>>

playerUpdateInfraVision(next) ==
    /\ Ran("playerUpdateInfraVision", UpdateInfraVision(Player), next)
    /\ UNCHANGED <<inputVars, base, regen_amount, current_game_turn, con_adj, raises>>

(* The other per-turn routines of playDungeon: light, food, resting,
   hallucination, paralysis, the plain countdowns, word of recall, the
   status redraw and the enchantment scan. *)

PLAYER_FOOD_ALERT == 2000
PLAYER_FOOD_WEAK == 1000
PLAYER_FOOD_FAINT == 300

\* end_find(): the run stops.
end_find(p) == Emit([p EXCEPT !.running_counter = 0], <<"end_find">>)

\* teleport(dis): the player is moved, and a queued teleport is used up.
teleport(p, dis) ==
    Emit([p EXCEPT !.globals.teleport_player = FALSE], <<"teleport", dis>>)

\* playerUpdateLightStatus(); faint_roll is randomNumber(5) == 1.
UpdateLightStatus(p, faint_roll) ==
    LET g == p.globals
    IN  IF g.player_carrying_light
        THEN IF g.light_p1 > 0
             THEN LET p1 == [p EXCEPT !.globals.light_p1 = @ - 1]
                  IN  IF p1.globals.light_p1 = 0
                      THEN updateMonsters(disturb(printMessage(
                              [p1 EXCEPT !.globals.player_carrying_light = FALSE],
                              "Your light has gone out!"), 0, 1))
                      ELSE IF p1.globals.light_p1 < 40 /\ faint_roll
                              /\ p1.flags.blind < 1
                      THEN printMessage(disturb(p1, 0, 0),
                                        "Your light is growing faint.")
                      ELSE p1
             ELSE updateMonsters(disturb(
                     [p EXCEPT !.globals.player_carrying_light = FALSE], 0, 1))
        ELSE IF g.light_p1 > 0
        THEN updateMonsters(disturb(
                [p EXCEPT !.globals.light_p1 = @ - 1,
                          !.globals.player_carrying_light = TRUE], 0, 1))
        ELSE p

\* The regen class playerFoodConsumption returns for a food counter.
FoodRegenAmount(food) ==
    IF food < 0 THEN 0
    ELSE IF food < PLAYER_FOOD_FAINT THEN PLAYER_REGEN_FAINT
    ELSE IF food < PLAYER_FOOD_WEAK THEN PLAYER_REGEN_WEAK
    ELSE PLAYER_REGEN_NORMAL

\* Mutant: any hunger below zero costs one hit point.
StarvationDamage_one(food) == 1

\* The damage of starvation for a food counter below 0: -food / 16.
StarvationDamage(food) == (0 - food) \div 16

\* playerFoodConsumption(); faint is 0 where randomNumber(8) is not 1 (or is
\* not called), and randomNumber(5) where it is.
FoodConsumption(p, faint) ==
    LET food == p.flags.food
        p1 == IF food < PLAYER_FOOD_WEAK /\ "PY_WEAK" \notin p.status
              THEN Emit(disturb(printMessage(
                      [p EXCEPT !.status = @ \cup {"PY_WEAK"}],
                      "You are getting weak from hunger."), 0, 0),
                      <<"prt_hunger">>)
              ELSE p
        p2 == IF food < PLAYER_FOOD_FAINT /\ faint > 0
              THEN disturb(printMessage(
                      [p1 EXCEPT !.flags.paralysis = Int16(@ + faint)],
                      "You faint from the lack of food."), 1, 0)
              ELSE p1
        p3 == IF food >= PLAYER_FOOD_WEAK /\ food < PLAYER_FOOD_ALERT
                 /\ "PY_HUNGRY" \notin p.status
              THEN Emit(disturb(printMessage(
                      [p2 EXCEPT !.status = @ \cup {"PY_HUNGRY"}],
                      "You are getting hungry."), 0, 0),
                      <<"prt_hunger">>)
              ELSE p2
        p4 == IF p3.flags.speed < 0
              THEN [p3 EXCEPT !.flags.food = Int16(@ - p3.flags.speed * p3.flags.speed)]
              ELSE p3
        p5 == [p4 EXCEPT !.flags.food = Int16(@ - p4.flags.food_digested)]
    IN  [regen_amount |-> FoodRegenAmount(food),
         p |-> IF p5.flags.food < 0
               THEN disturb(take_hit(p5, StarvationDamage(p5.flags.food)), 1, 0)
               ELSE p5]

\* Mutant: resting until the vitals are full goes on to the end of the count.
UpdateRestingState_nofull(p) ==
    IF p.flags.rest > 0
    THEN LET p1 == [p EXCEPT !.flags.rest = Int16(@ - 1)]
         IN  IF p1.flags.rest = 0 THEN rest_off(p1) ELSE p1
    ELSE IF p.flags.rest < 0
    THEN LET p1 == [p EXCEPT !.flags.rest = Int16(@ + 1)]
         IN  IF p1.flags.rest = 0 THEN rest_off(p1) ELSE p1
    ELSE p

\* playerUpdateRestingState()
UpdateRestingState(p) ==
    IF p.flags.rest > 0
    THEN LET p1 == [p EXCEPT !.flags.rest = Int16(@ - 1)]
         IN  IF p1.flags.rest = 0 THEN rest_off(p1) ELSE p1
    ELSE IF p.flags.rest < 0
    THEN LET p1 == [p EXCEPT !.flags.rest = Int16(@ + 1)]
         IN  IF \/ p1.misc.chp = p1.misc.mhp /\ p1.misc.cmana = p1.misc.mana
                \/ p1.flags.rest = 0
             THEN rest_off(p1)
             ELSE p1
    ELSE p

\* playerUpdateHallucination()
UpdateHallucination(p) ==
    IF p.flags.image <= 0
    THEN p
    ELSE LET p1 == [end_find(p) EXCEPT !.flags.image = Int16(@ - 1)]
         IN  IF p1.flags.image = 0 THEN Emit(p1, <<"prt_map">>) ELSE p1

\* playerUpdateParalysis()
UpdateParalysis(p) ==
    IF p.flags.paralysis <= 0
    THEN p
    ELSE disturb([p EXCEPT !.flags.paralysis = Int16(@ - 1)], 1, 0)

\* The countdowns without a status bit: the timer runs down and its last
\* tick prints the message.
Countdown(p, timer, text) ==
    IF p.flags[timer] <= 0
    THEN p
    ELSE LET p1 == [p EXCEPT !.flags[timer] = Int16(@ - 1)]
         IN  IF p1.flags[timer] = 0 THEN printMessage(p1, text) ELSE p1

\* playerUpdateEvilProtection()
UpdateEvilProtection(p) ==
    Countdown(p, "protevil", "You no longer feel safe from evil.")

\* playerUpdateHeatResistance()
UpdateHeatResistance(p) ==
    Countdown(p, "resist_heat", "You no longer feel safe from flame.")

\* playerUpdateColdResistance()
UpdateColdResistance(p) ==
    Countdown(p, "resist_cold", "You no longer feel safe from cold.")

\* Mutant: the recall always goes to the town.
UpdateWordOfRecall_town(p) ==
    IF p.flags.word_recall <= 0
    THEN p
    ELSE IF p.flags.word_recall = 1
    THEN LET p1 == [p EXCEPT !.generate_new_level = TRUE,
                             !.flags.paralysis = Int16(@ + 1),
                             !.flags.word_recall = 0]
         IN  printMessage([p1 EXCEPT !.globals.current_dungeon_level = 0],
                          "You feel yourself yanked upwards!")
    ELSE [p EXCEPT !.flags.word_recall = Int16(@ - 1)]

\* playerUpdateWordOfRecall()
UpdateWordOfRecall(p) ==
    IF p.flags.word_recall <= 0
    THEN p
    ELSE IF p.flags.word_recall = 1
    THEN LET p1 == [p EXCEPT !.generate_new_level = TRUE,
                             !.flags.paralysis = Int16(@ + 1),
                             !.flags.word_recall = 0]
         IN  IF p1.globals.current_dungeon_level > 0
             THEN printMessage([p1 EXCEPT !.globals.current_dungeon_level = 0],
                               "You feel yourself yanked upwards!")
             ELSE IF p1.misc.max_dlv # 0
             THEN printMessage(
                     [p1 EXCEPT !.globals.current_dungeon_level = p1.misc.max_dlv],
                     "You feel yourself yanked downwards!")
             ELSE p1
    ELSE [p EXCEPT !.flags.word_recall = Int16(@ - 1)]

\* The six PY_STR << n bits of PY_STATS.
StatBits == {"PY_STR", "PY_INT", "PY_WIS", "PY_DEX", "PY_CON", "PY_CHR"}

\* The stat bits in the order of n.
StatOrder == <<"PY_STR", "PY_INT", "PY_WIS", "PY_DEX", "PY_CON", "PY_CHR">>

\* playerUpdateStatusFlags(): what is flagged for redrawing is printed and
\* its bit cleared; the paralysis bit follows the paralysis counter.
UpdateStatusFlags(p) ==
    LET p1 == IF "PY_SPEED" \in p.status
              THEN Emit([p EXCEPT !.status = @ \ {"PY_SPEED"}], <<"prt_speed">>)
              ELSE p
        p2 == IF "PY_PARALYSED" \in p1.status /\ p1.flags.paralysis < 1
              THEN [Emit(p1, <<"prt_state">>) EXCEPT !.status = @ \ {"PY_PARALYSED"}]
              ELSE IF p1.flags.paralysis > 0
              THEN [Emit(p1, <<"prt_state">>) EXCEPT !.status = @ \cup {"PY_PARALYSED"}]
              ELSE IF p1.flags.rest # 0
              THEN Emit(p1, <<"prt_state">>)
              ELSE p1
        p3 == IF "PY_ARMOR" \in p2.status
              THEN [Emit(p2, <<"prt_pac">>) EXCEPT !.status = @ \ {"PY_ARMOR"}]
              ELSE p2
        stats == SelectSeq(StatOrder, LAMBDA b : b \in p3.status)
        p4 == IF stats # <<>>
              THEN [p3 EXCEPT !.status = @ \ StatBits,
                              !.out = @ \o [i \in 1 .. Len(stats) |->
                                               <<"prt_stat", stats[i]>>]]
              ELSE p3
        p5 == IF "PY_HP" \in p4.status
              THEN [Emit(Emit(p4, <<"prt_mhp">>), <<"prt_chp">>)
                       EXCEPT !.status = @ \ {"PY_HP"}]
              ELSE p4
    IN  IF "PY_MANA" \in p5.status
        THEN [Emit(p5, <<"prt_cmana">>) EXCEPT !.status = @ \ {"PY_MANA"}]
        ELSE p5

\* The slots of the inventory array: the pack from slot 0 on, the equipment
\* from slot INVEN_WIELD on.
INVEN_WIELD == 22
INVEN_ARRAY_SIZE == 34
Slots == 0 .. INVEN_ARRAY_SIZE - 1

\* An empty slot (tval TV_NOTHING), with the fields of an item enchanted()
\* reads: the kind (TV_SWORD stands for the kinds from TV_MIN_ENCHANT to
\* TV_MAX_ENCHANT, TV_FOOD for the others), TR_CURSED, whether the item is
\* identified (spellItemIdentified), the ID_MAGIK bit of ident, the three
\* bonuses, whether flags has a bit of 0x4000107f (bonuses that scale with
\* p1), p1, and whether flags has a bit of 0x07ffe980.
NoItem ==
    [tval |-> "TV_NOTHING", cursed |-> FALSE, identified |-> FALSE,
     magik |-> FALSE, tohit |-> 0, todam |-> 0, toac |-> 0,
     stat_flags |-> FALSE, p1 |-> 0, power_flags |-> FALSE]

\* A weapon without any enchantment.
PlainSword == [NoItem EXCEPT !.tval = "TV_SWORD"]

\* tval >= TV_MIN_ENCHANT && tval <= TV_MAX_ENCHANT
InEnchantRange(tval) == tval = "TV_SWORD"

\* enchanted(t_ptr): an enchanted weapon or armour that is not cursed, not
\* identified and not marked yet, with a good enchantment.
enchanted(t) ==
    IF ~InEnchantRange(t.tval) \/ t.cursed THEN FALSE
    ELSE IF t.identified THEN FALSE
    ELSE IF t.magik THEN FALSE
    ELSE IF t.tohit > 0 \/ t.todam > 0 \/ t.toac > 0 THEN TRUE
    ELSE IF t.stat_flags /\ t.p1 > 0 THEN TRUE
    ELSE t.power_flags

\* Mutant: the loop goes through the whole array.
ScannedSlot_all(i, count) == i

\* if (i == inventory_count) i = 22
ScannedSlot(i, count) == IF i = count THEN INVEN_WIELD ELSE i

\* The loop of playerDetectEnchantment() from the index i0 on: the slot is
\* looked at (noted in the output), and an item that is there and enchanted
\* is sensed if randomNumber(chance) gives 1, which it does for the slots
\* of `lucky`: the player is disturbed and told, and the item is marked.
RECURSIVE DetectFrom(_, _, _)
DetectFrom(p, i0, lucky) ==
    IF i0 >= INVEN_ARRAY_SIZE
    THEN p
    ELSE LET i == ScannedSlot(i0, p.globals.inventory_count)
             item == p.globals.inventory[i]
             chance == IF i < INVEN_WIELD THEN 50 ELSE 10
             p0 == Emit(p, <<"examine", i, chance>>)
         IN  DetectFrom(
                IF item.tval # "TV_NOTHING" /\ enchanted(item) /\ i \in lucky
                THEN [Emit(printMessage(disturb(p0, 0, 0),
                                        "There's something about what you are ..."),
                           <<"add_inscribe", i, "ID_MAGIK">>)
                         EXCEPT !.globals.inventory[i].magik = TRUE]
                ELSE p0,
                i + 1, lucky)

\* playerDetectEnchantment()
DetectEnchantment(p, lucky) == DetectFrom(p, 0, lucky)

--------------------------------------------------------------------------
(* The other steps of a turn of playDungeon, in the order of its loop. *)

\* What a step of the turn that is not a command leaves alone.
turnFrame == <<inputVars, base, regen_amount, current_game_turn, con_adj, raises>>

\* turn over the store contents every, say, 1000 turns
storeMaintenance(next) ==
    /\ Ran("store_maint",
           IF globals.current_dungeon_level # 0 /\ current_game_turn % 1000 = 0
           THEN Emit(Player, <<"store_maint">>) ELSE Player,
           next)
    /\ UNCHANGED turnFrame

\* Check for creature generation: randomNumber(MAX_MALLOC_CHANCE) == 1
monsterGeneration(next) ==
    /\ \E roll \in BOOLEAN :
          Ran("alloc_monster",
              IF roll THEN Emit(Player, <<"alloc_monster">>) ELSE Player, next)
    /\ UNCHANGED turnFrame

playerUpdateLightStatus(next) ==
    /\ \E faint_roll \in (IF /\ globals.player_carrying_light
                             /\ globals.light_p1 > 1 /\ globals.light_p1 <= 40
                          THEN BOOLEAN ELSE {FALSE}) :
          Ran("playerUpdateLightStatus", UpdateLightStatus(Player, faint_roll), next)
    /\ UNCHANGED turnFrame

\* The outcomes of the fainting roll: none (0), or randomNumber(5) turns.
FaintRolls == 0 .. 5

playerFoodConsumption(next) ==
    /\ \E faint \in (IF flags.food < PLAYER_FOOD_FAINT THEN FaintRolls ELSE {0}) :
          LET r == FoodConsumption(Player, faint)
          IN  /\ regen_amount' = r.regen_amount
              /\ Ran("playerFoodConsumption", r.p, next)
    /\ UNCHANGED <<inputVars, base, current_game_turn, con_adj, raises>>

playerUpdateRestingState(next) ==
    /\ Ran("playerUpdateRestingState", UpdateRestingState(Player), next)
    /\ UNCHANGED turnFrame

\* Mutant: the terminal is polled whatever the player is doing.
KeypressPoll_always(p, pending) ==
    LET p1 == Emit(Emit(p, <<"key_waiting", pending>>),
                   <<"checkForNonBlockingKeyPress",
                     IF p.running_counter # 0 THEN 0 ELSE 10000>>)
    IN  IF pending THEN disturb(p1, 0, 0) ELSE p1

\* The poll in the middle of the turn, a key waiting at the terminal or not
\* (pending, noted in the output): only with a repeat count pending, on a
\* run or at rest is the terminal polled, at once on a run and for up to
\* 10000 microseconds otherwise, and a key that waits disturbs the player.
KeypressPoll(p, pending) ==
    LET p0 == Emit(p, <<"key_waiting", pending>>)
    IN  IF p.command_count > 0 \/ p.running_counter # 0 \/ p.flags.rest # 0
        THEN LET p1 == Emit(p0, <<"checkForNonBlockingKeyPress",
                                  IF p.running_counter # 0 THEN 0 ELSE 10000>>)
             IN  IF pending THEN disturb(p1, 0, 0) ELSE p1
        ELSE p0

\* The poll step of a turn; the key is left at the terminal.
pollKeypress(next) ==
    /\ \E pending \in BOOLEAN :
          Ran("checkForNonBlockingKeyPress", KeypressPoll(Player, pending), next)
    /\ UNCHANGED turnFrame

playerUpdateHallucination(next) ==
    /\ Ran("playerUpdateHallucination", UpdateHallucination(Player), next)
    /\ UNCHANGED turnFrame

playerUpdateParalysis(next) ==
    /\ Ran("playerUpdateParalysis", UpdateParalysis(Player), next)
    /\ UNCHANGED turnFrame

playerUpdateEvilProtection(next) ==
    /\ Ran("playerUpdateEvilProtection", UpdateEvilProtection(Player), next)
    /\ UNCHANGED turnFrame

playerUpdateHeatResistance(next) ==
    /\ Ran("playerUpdateHeatResistance", UpdateHeatResistance(Player), next)
    /\ UNCHANGED turnFrame

playerUpdateColdResistance(next) ==
    /\ Ran("playerUpdateColdResistance", UpdateColdResistance(Player), next)
    /\ UNCHANGED turnFrame

playerUpdateWordOfRecall(next) ==
    /\ Ran("playerUpdateWordOfRecall", UpdateWordOfRecall(Player), next)
    /\ UNCHANGED turnFrame

\* Random teleportation: py.flags.teleport && randomNumber(100) == 1
randomTeleport(next) ==
    /\ \E roll \in (IF flags.teleport THEN BOOLEAN ELSE {FALSE}) :
          Ran("teleport",
              IF roll THEN teleport(disturb(Player, 0, 0), 40) ELSE Player, next)
    /\ UNCHANGED turnFrame

\* See if we are too weak to handle the weapon or pack, and whether there is
\* a spell to learn.
checkStrengthAndStudy(next) ==
    /\ Ran("check_strength",
           LET p == IF "PY_STR_WGT" \in status
                    THEN Emit(Player, <<"check_strength">>) ELSE Player
           IN  IF "PY_STUDY" \in status THEN Emit(p, <<"prt_study">>) ELSE p,
           next)
    /\ UNCHANGED turnFrame

playerUpdateStatusFlags(next) ==
    /\ Ran("playerUpdateStatusFlags", UpdateStatusFlags(Player), next)
    /\ UNCHANGED turnFrame

\* The slots whose item the scan would sense if the dice allow.
EnchantedSlots(g) ==
    {i \in Slots : /\ i < g.inventory_count \/ i >= INVEN_WIELD
                   /\ g.inventory[i].tval # "TV_NOTHING"
                   /\ enchanted(g.inventory[i])}

\* The outcomes of randomNumber(chance) == 1 over a scan: for no slot, for
\* the first or the last of the slots with something to sense, or for all
\* of them.
LuckySlots(g) ==
    LET E == EnchantedSlots(g)
    IN  {{}, E} \cup {{i} : i \in {k \in E : \/ \A j \in E : j >= k
                                              \/ \A m \in E : m <= k}}

\* (current_game_turn & 0xF) == 0 && py.flags.confused == 0
ScanDue(turn, confused) == turn % 16 = 0 /\ confused = 0

\* The slim chance of detect enchantment: on a turn that is due,
\* randomNumber(chance) == 1 decides whether the inventory is scanned.
detectEnchantment(next) ==
    /\ \E runs \in (IF ScanDue(current_game_turn, flags.confused)
                    THEN BOOLEAN ELSE {FALSE}) :
          \E lucky \in (IF runs THEN LuckySlots(globals) ELSE {{}}) :
             Ran("playerDetectEnchantment",
                 IF runs THEN DetectEnchantment(Player, lucky) ELSE Player,
                 next)
    /\ UNCHANGED turnFrame

\* Check the state of the monster list, and delete some monsters if the list
\* is nearly full.
compactMonsters(next) ==
    /\ \E nearly_full \in BOOLEAN :
          Ran("compact_monsters",
              IF nearly_full THEN Emit(Player, <<"compact_monsters">>) ELSE Player,
              next)
    /\ UNCHANGED turnFrame

\* Mutant: a paralysed player is given a command too.
CommandAccepted_paralysed(paralysis, rest, dead) == rest = 0 /\ ~dead

\* Accept a command?
CommandAccepted(paralysis, rest, dead) == paralysis < 1 /\ rest = 0 /\ ~dead

\* The command is accepted (executeInputCommands), or, if paralyzed, resting,
\* or dead, the output is flushed.
commandAcceptance(accepted, next) ==
    /\ IF CommandAccepted(flags.paralysis, flags.rest, character_is_dead)
       THEN Ran("executeInputCommands", Player, accepted)
       ELSE Ran("executeInputCommands",
                Emit(Emit(Player, <<"moveCursorRelative">>), <<"putQIO">>), next)
    /\ UNCHANGED turnFrame

\* Mutant: the end of the input does not end the loop.
AnotherTurn_noeof(new_level, eof) == ~new_level

\* Mutant: the loop is left only when the level and the input have both ended.
AnotherTurn_both(new_level, eof) == ~new_level \/ eof = 0

\* while (!generate_new_level && !eof_flag)
AnotherTurn(new_level, eof) == ~new_level /\ eof = 0

\* Mutant: the creatures move at the end of every turn.
MonstersMove_always(new_level) == TRUE

\* if (!generate_new_level) updateMonsters(true)
MonstersMove(new_level) == ~new_level

\* The end of the turn: a queued teleport happens, the creatures move unless
\* a new level must be generated, and the loop of playDungeon runs on unless
\* a new level must be generated or the input has ended.
EndTurn ==
    /\ Ran("command",
           LET p == IF globals.teleport_player THEN teleport(Player, 100)
                    ELSE Player
           IN  IF MonstersMove(generate_new_level)
               THEN Emit(p, <<"updateMonsters", TRUE>>)
               ELSE p,
           IF AnotherTurn(generate_new_level, eof_flag) THEN "turn" ELSE "done")
    /\ UNCHANGED <<inputVars, base, regen_amount, current_game_turn, con_adj, raises>>

\* The amounts an external increase adds to a timer: 1, which makes an idle
\* effect start and wear off in one update, and 2, which keeps it running.
RaiseAmounts == {1, 2}

\* A command or a monster's attack, at the end of a turn, adds n turns to the
\* timer of effect e (a potion, a spell, a breath).
ExternalRaise(which) ==
    /\ pc = "command"
    /\ raises < MaxRaises
    /\ \E e \in which, n \in RaiseAmounts :
          flags' = [flags EXCEPT ![e] = Int16(@ + n)]
    /\ raises' = raises + 1
    /\ last' = "raise"
    /\ out' = <<>>
    /\ UNCHANGED <<inputVars, status, misc, base, lastEvent, pc, regen_amount,
                   current_game_turn,
                   con_adj, command_count, running_counter, character_is_dead,
                   generate_new_level, globals>>

--------------------------------------------------------------------------
(* The command interpreter: executeInputCommands, one step per key read. *)

\* The keys the terminal delivers in the model: three digits, the backspace
\* key, the space, the count prefix of the original scheme, a move or help
\* key, a run key, an inventory key, the search key, the staircase key,
\* ESCAPE and the control-escape key.
Keys == {"0", "1", "2", "DELETE", " ", "#", "h", "H", "i", "s", "<", "ESCAPE", "^"}

\* lastInputCommand >= '0' && lastInputCommand <= '9'
Digits == <<"0", "1", "2", "3", "4", "5", "6", "7", "8", "9">>

IsDigit(c) == \E i \in 1..10 : Digits[i] = c

\* lastInputCommand - '0'
DigitValue(c) == (CHOOSE i \in 1..10 : Digits[i] = c) - 1

\* lastInputCommand == DELETE || lastInputCommand == CTRL_KEY('H')
IsBackspace(c) == c \in {"DELETE", "^H"}

UpperLetters ==
    <<"A", "B", "C", "D", "E", "F", "G", "H", "I", "J", "K", "L", "M",
      "N", "O", "P", "Q", "R", "S", "T", "U", "V", "W", "X", "Y", "Z">>

LowerLetters ==
    <<"a", "b", "c", "d", "e", "f", "g", "h", "i", "j", "k", "l", "m",
      "n", "o", "p", "q", "r", "s", "t", "u", "v", "w", "x", "y", "z">>

\* CTRL_KEY(letter): the codes 1..26, named by their letter
ControlKeys ==
    <<"^A", "^B", "^C", "^D", "^E", "^F", "^G", "^H", "^I", "^J", "^K", "^L",
      "^M", "^N", "^O", "^P", "^Q", "^R", "^S", "^T", "^U", "^V", "^W", "^X",
      "^Y", "^Z">>

IsLetter(k) == \E i \in 1..26 : UpperLetters[i] = k \/ LowerLetters[i] = k

\* Mutant: only a capital letter gives its control code.
ControlCode_capital(k) ==
    IF \E i \in 1..26 : UpperLetters[i] = k
    THEN ControlKeys[CHOOSE i \in 1..26 : UpperLetters[i] = k]
    ELSE " "

\* The code of a letter typed after '^': lastInputCommand -= 'A' - 1, or
\* -= 'a' - 1; " " for a key that is not a letter.
ControlCode(k) ==
    IF IsLetter(k)
    THEN ControlKeys[CHOOSE i \in 1..26 : UpperLetters[i] = k \/ LowerLetters[i] = k]
    ELSE " "

\* What get_dir can answer: whether a direction was given, the direction, and
\* whether asking for it cleared command_count (a key read does).
GetDirResults == [ok : BOOLEAN, dir : 1..9, cleared : BOOLEAN]

\* The answers of get_dir where it is called; where it is not called there
\* is nothing to choose.
DirAnswers(called) ==
    IF called THEN GetDirResults
    ELSE {[ok |-> FALSE, dir |-> 5, cleared |-> FALSE]}

\* The roguelike move keys, run keys and tunnel codes of the directions 1..9
\* (direction 5 has none).
MoveKeys == <<"b", "j", "n", "h", "", "l", "y", "k", "u">>

RunKeys == <<"B", "J", "N", "H", "", "L", "Y", "K", "U">>

TunnelKeys == <<"^B", "^J", "^N", "^H", "", "^L", "^Y", "^K", "^U">>

\* The codes original_commands returns unchanged.
OriginalKept ==
    {"^P", "^W", "^X", "^V", " ", "!", "$", "/", "<", ">", "-", "=", "{", "?",
     "A", "C", "D", "E", "F", "G", "M", "R", "V", "c", "d", "e", "i", "m", "o",
     "p", "q", "r", "s", "v", "w", "^A", "^D", "^I", ":", "^T", "^E", "^F",
     "^G", "@", "+"}

\* The codes original_commands has a case for.
OriginalCases ==
    OriginalKept \cup
    {"^K", "^J", "^M", ".", "1", "2", "3", "4", "5", "6", "7", "8", "9", "B",
     "L", "S", "T", "a", "b", "f", "h", "j", "l", "t", "u", "x", "^B", "^H",
     "^L", "^U"}

\* Mutant: every key is its own roguelike form.
original_commands_same(c, g) == c

\* original_commands(com_val): the roguelike form of a key of the original
\* scheme; g is what get_dir answers for the keys that ask for a direction.
original_commands(c, g) ==
    CASE c = "^K" -> "Q"
      [] c \in {"^J", "^M"} -> "+"
      [] c = "." -> IF g.ok /\ g.dir # 5 THEN RunKeys[g.dir] ELSE " "
      [] c = "T" -> IF g.ok /\ g.dir # 5 THEN TunnelKeys[g.dir] ELSE " "
      [] c = "5" -> "."
      [] IsDigit(c) /\ c \notin {"0", "5"} -> MoveKeys[DigitValue(c)]
      [] c = "B" -> "f"
      [] c = "L" -> "W"
      [] c = "S" -> "#"
      [] c = "a" -> "z"
      [] c = "b" -> "P"
      [] c = "f" -> "t"
      [] c = "h" -> "?"
      [] c = "j" -> "S"
      [] c = "l" -> "x"
      [] c = "t" -> "T"
      [] c = "u" -> "Z"
      [] c = "x" -> "X"
      [] c = "^B" -> "^O"
      [] c = "^H" -> "\\"
      [] c = "^L" -> "*"
      [] c = "^U" -> "&"
      [] c \in OriginalKept -> c
      [] OTHER -> "~"

\* The codes do_command has a case for that leaves player_free_turn alone
\* (the handler decides: a move, a search, a tunnel take the turn).
TurnCommands ==
    {"b", "j", "n", "h", "l", "y", "k", "u", "B", "J", "N", "H", "L", "Y", "K",
     "U", ".", "<", ">", "f", "D", "E", "F", "G", "R", "^B", "^M", "^J", "^N",
     "^H", "^L", "^Y", "^K", "^U", "z", "c", "t", "S", "m", "o", "p", "q", "r",
     "s", "Z"}

\* The codes do_command hands to inven_command, which makes the turn free
\* when it only lists.
InventoryCommands == {"d", "e", "i", "T", "w", "X"}

\* valid_countcommand(c): the codes of its "return false" group
CountRefused ==
    {"Q", "^W", "^X", "=", "{", "/", "<", ">", "?", "C", "E", "F", "G", "V",
     "#", "z", "P", "c", "d", "e", "t", "i", "x", "m", "p", "q", "r", "T", "Z",
     "v", "w", "W", "X", "^A", "\\", "^I", "*", ":", "^T", "^E", "^F", "^S",
     "^Q"}

\* valid_countcommand(c): the codes of its "return true" group
CountAccepted ==
    {"^P", "ESCAPE", " ", "-", "b", "f", "j", "n", "h", "l", "y", "k", "u",
     ".", "B", "J", "N", "H", "L", "Y", "K", "U", "D", "R", "^Y", "^K",
     "^U", "^L", "^N", "^J", "^B", "^H", "S", "o", "s", "^D", "^G", "+"}

\* Mutant: the codes handed to inven_command are accepted too.
valid_countcommand_inventory(c) == c \in CountAccepted \cup InventoryCommands

\* Mutant: every code is accepted with a count.
valid_countcommand_all(c) == c = c

\* Mutant: a code that is in neither group is accepted.
valid_countcommand_open(c) == c \notin CountRefused

\* valid_countcommand(c)
valid_countcommand(c) ==
    CASE c \in CountRefused -> FALSE
      [] c \in CountAccepted -> TRUE
      [] OTHER -> FALSE

\* Mutant: command_count is not restored after get_dir.
moveWithoutPickup_norestore(c, count, g) ==
    IF c # "-"
    THEN [com_val |-> c, command_count |-> count, do_pickup |-> TRUE]
    ELSE [com_val |-> IF ~g.ok THEN " "
                      ELSE IF g.dir # 5 THEN MoveKeys[g.dir] ELSE "~",
          command_count |-> IF g.cleared THEN 0 ELSE count,
          do_pickup |-> FALSE]

\* moveWithoutPickup(&com_val): '-' becomes the move of the direction get_dir
\* answers, and do_pickup is false for it; command_count is saved before
\* get_dir and restored where get_dir succeeded.
moveWithoutPickup(c, count, g) ==
    IF c # "-"
    THEN [com_val |-> c, command_count |-> count, do_pickup |-> TRUE]
    ELSE IF g.ok
         THEN [com_val |-> IF g.dir # 5 THEN MoveKeys[g.dir] ELSE "~",
               command_count |-> count, do_pickup |-> FALSE]
         ELSE [com_val |-> " ",
               command_count |-> IF g.cleared THEN 0 ELSE count,
               do_pickup |-> FALSE]

\* The direction of a move, run or tunnel code.
DirOf(keys, c) == CHOOSE d \in 1..9 : keys[d] = c

IsDirKey(keys, c) == \E d \in 1..9 : d # 5 /\ keys[d] = c

\* do_command(com_val): whether the command leaves player_free_turn set. Every
\* other case of the switch, and its default (wizard codes), is a free turn.
do_command_free(c) == c \notin TurnCommands \/ c \in InventoryCommands

\* do_command(com_val): the handler the switch calls for the code c.
Handler(c, do_pickup) ==
    CASE IsDirKey(MoveKeys, c) -> <<"move_char", DirOf(MoveKeys, c), do_pickup>>
      [] IsDirKey(RunKeys, c) -> <<"find_init", DirOf(RunKeys, c)>>
      [] IsDirKey(TunnelKeys, c) -> <<"tunnel", DirOf(TunnelKeys, c)>>
      [] c = "^M" -> <<"tunnel", 2>>
      [] c = "." -> <<"move_char", 5, do_pickup>>
      [] c \in InventoryCommands ->
            <<"inven_command", LowerLetters[CHOOSE i \in 1..26 :
                                   UpperLetters[i] = c \/ LowerLetters[i] = c]>>
      [] c \in {"!", "$", "ESCAPE", " "} -> <<"nothing">>
      [] c = "<" -> <<"go_up">>
      [] c = ">" -> <<"go_down">>
      [] c = "R" -> <<"rest">>
      [] c = "s" -> <<"search">>
      [] c \in TurnCommands -> <<"action", c>>
      [] c \in {"Q", "^P", "^V", "^W", "^X", "=", "{", "/", "?", "C", "V", "W",
                "#", "M", "P", "x", "v"} -> <<"screen", c>>
      [] OTHER -> <<"default", c>>

\* do_command(com_val) with command_count = count, where get_dir answers g
\* and `stairs` tells whether the player stands on a staircase: the code
\* dispatched after moveWithoutPickup, the handler called, and what the call
\* does to the free-turn flag, the run, the level and the count ('.' with a
\* count above 1 uses one repetition up and rests).
do_command(com_val, count, g, stairs) ==
    LET m == moveWithoutPickup(com_val, count, g)
        c == m.com_val
    IN  [com_val |-> c,
         do_pickup |-> m.do_pickup,
         handler |-> Handler(c, m.do_pickup),
         free |-> do_command_free(c) \/ (c \in {"<", ">"} /\ ~stairs),
         starts_run |-> IsDirKey(RunKeys, c),
         leaves_level |-> c \in {"<", ">"} /\ stairs,
         command_count |-> IF c = "." /\ m.command_count > 1
                           THEN m.command_count - 1 ELSE m.command_count]

\* The codes doWizardCommands has a case for.
WizardCodes ==
    {"^A", "^E", "^F", "^G", "^D", "^O", "\\", "^I", "*", ":", "^T", "+", "&", "@"}

\* What the prompt of ^D can give for the level: -1 where nothing was typed,
\* or the number typed.
TypedLevels == {-1, 0, 5, 150}

\* doWizardCommands(com_val), where the prompt of ^D gives typed_level; the
\* handlers that are not part of this file are calls by their name.
doWizardCommands(p, com_val, typed_level, roguelike) ==
    CASE com_val = "^A" ->
            [Emit(p, <<"cure_all">>) EXCEPT
                !.flags.slow = IF @ > 1 THEN 1 ELSE @,
                !.flags.image = IF @ > 1 THEN 1 ELSE @]
      [] com_val = "^E" -> Emit(p, <<"change_character">>)
      [] com_val = "^F" -> Emit(p, <<"mass_genocide">>)
      [] com_val = "^G" ->
            Emit(Emit([p EXCEPT !.command_count = 0],
                      <<"random_object",
                        IF p.command_count > 0 THEN p.command_count ELSE 1>>),
                 <<"prt_map">>)
      [] com_val = "^D" ->
            LET i == IF p.command_count > 0
                     THEN (IF p.command_count > 99 THEN 0 ELSE p.command_count)
                     ELSE typed_level
                p1 == IF p.command_count > 0
                      THEN [p EXCEPT !.command_count = 0]
                      ELSE Emit(p, <<"prt", "Go to which level (0-99) ? ">>)
            IN  IF i > -1
                THEN [p1 EXCEPT !.globals.current_dungeon_level =
                                    IF Int16(i) > 99 THEN 99 ELSE Int16(i),
                                !.generate_new_level = TRUE]
                ELSE Emit(p1, <<"eraseLine">>)
      [] com_val = "^O" -> Emit(p, <<"outputRandomLevelObjectsToFile">>)
      [] com_val = "\\" ->
            Emit(p, <<"displayTextHelpFile",
                      IF roguelike THEN "MORIA_WIZ_HELP" ELSE "MORIA_OWIZ_HELP">>)
      [] com_val = "^I" -> Emit(p, <<"ident_spell">>)
      [] com_val = "*" -> Emit(p, <<"wizard_light">>)
      [] com_val = ":" -> Emit(p, <<"map_area">>)
      [] com_val = "^T" -> teleport(p, 100)
      [] com_val = "+" ->
            Emit(IF p.command_count > 0
                 THEN [p EXCEPT !.misc.exp = p.command_count, !.command_count = 0]
                 ELSE IF p.misc.exp = 0
                 THEN [p EXCEPT !.misc.exp = 1]
                 ELSE [p EXCEPT !.misc.exp = @ * 2],
                 <<"prt_experience">>)
      [] com_val = "&" -> updateMonsters(Emit(p, <<"summon_monster">>))
      [] com_val = "@" -> Emit(p, <<"wizard_create">>)
      [] OTHER ->
            Emit(p, <<"prt", IF roguelike THEN "Type '?' or '\\' for help."
                             ELSE "Type '?' or ^H for help.">>)

\* Mutant: the wizard's commands work without the wizard mode.
do_command_default_open(p, com_val, typed_level, roguelike) ==
    doWizardCommands(p, com_val, typed_level, roguelike)

\* The default case of do_command: wizard commands are free moves (see
\* do_command_free), and without the wizard mode they only give the hint.
do_command_default(p, com_val, typed_level, roguelike) ==
    IF p.globals.wizard_mode
    THEN doWizardCommands(p, com_val, typed_level, roguelike)
    ELSE Emit(p, <<"prt", "Type '?' for help.">>)

\* commandQuit(), where the player confirms or not
commandQuit(p, confirmed) ==
    IF confirmed
    THEN [Emit(p, <<"commandQuit">>) EXCEPT !.character_is_dead = TRUE,
                                            !.generate_new_level = TRUE]
    ELSE Emit(p, <<"commandQuit">>)

\* commandFlipWizardMode(), where enter_wiz_mode() lets the player in or not
commandFlipWizardMode(p, entered) ==
    Emit(IF p.globals.wizard_mode
         THEN printMessage([p EXCEPT !.globals.wizard_mode = FALSE],
                           "Wizard mode off.")
         ELSE IF entered
         THEN printMessage([p EXCEPT !.globals.wizard_mode = TRUE],
                           "Wizard mode on.")
         ELSE p,
         <<"prt_winner">>)

\* go_up() and go_down() on a staircase: the level changes.
takeStairs(p, com_val) ==
    [p EXCEPT !.globals.current_dungeon_level =
                  Int16(IF com_val = "<" THEN @ - 1 ELSE @ + 1),
              !.generate_new_level = TRUE]

\* The answers the handler of the command d asks for: the level typed at the
\* prompt of ^D, and the confirmation of the quit or of the wizard mode.
HandlerAnswers(d, wizard) ==
    {[typed_level |-> l, yes |-> y] :
        l \in (IF d.handler[1] = "default" /\ d.com_val = "^D" /\ wizard
                  /\ d.command_count = 0
               THEN TypedLevels ELSE {-1}),
        y \in (IF d.com_val = "Q" \/ (d.com_val = "^W" /\ ~wizard)
               THEN BOOLEAN ELSE {FALSE})}

\* The cases of do_command that change the globals: the quit, the wizard
\* mode, the stairs and the default case, for the command d = do_command(..)
\* and the answers a.
RunHandler(p, d, a, roguelike) ==
    IF d.handler[1] = "default"
    THEN do_command_default(p, d.com_val, a.typed_level, roguelike)
    ELSE IF d.com_val = "Q" THEN commandQuit(p, a.yes)
    ELSE IF d.com_val = "^W" THEN commandFlipWizardMode(p, a.yes)
    ELSE IF d.leaves_level THEN takeStairs(p, d.com_val)
    ELSE p

\* Mutant: a turn that was taken leaves the count as it is.
CountAfterCommand_keep(running, free, count) ==
    IF running # 0 THEN 0
    ELSE IF free THEN 0
    ELSE count

\* The accounting after do_command: a run takes the count over, a free turn
\* cancels it, a turn that was taken uses one repetition up.
CountAfterCommand(running, free, count) ==
    IF running # 0 THEN 0
    ELSE IF free THEN 0
    ELSE IF count # 0 THEN count - 1
    ELSE count

\* Mutant: a command ends the turn, free or not.
AnotherCommand_never(free, new_level, eof) == FALSE

\* while (player_free_turn && !generate_new_level && !eof_flag)
AnotherCommand(free, new_level, eof) == free /\ ~new_level /\ eof = 0

\* Mutant: a backspace leaves the count as it is.
CountStep_nodiv(n, c) ==
    IF IsBackspace(c) THEN n
    ELSE IF n > 99 THEN n
    ELSE n * 10 + DigitValue(c)

\* One round of the count loop on the count n with the key c: a backspace
\* divides by 10, a digit is appended unless the count is above 99.
CountStep(n, c) ==
    IF IsBackspace(c) THEN n \div 10
    ELSE IF n > 99 THEN n
    ELSE n * 10 + DigitValue(c)

\* inkey(): a key read clears command_count; at the end of the input it
\* counts the end in eof_flag, disturbs the player and returns ESCAPE.
inkey(p, eof) ==
    IF eof THEN disturb([p EXCEPT !.command_count = 0], 1, 0)
    ELSE [p EXCEPT !.command_count = 0]

\* getKeyInput() returns k: the next key of the terminal, or ESCAPE at the
\* end of the input; an input that ended stays ended.
getKeyInput(k, eof) ==
    /\ keys_read < MaxKeys
    /\ keys_read' = keys_read + 1
    /\ IF eof THEN k = "ESCAPE" ELSE eof_flag = 0
    /\ eof_flag' = (IF eof THEN eof_flag + 1 ELSE eof_flag)

\* What no step of the interpreter changes.
interpreterFrame ==
    <<base, lastEvent, regen_amount, current_game_turn, con_adj, raises,
      use_roguelike_keys>>

\* The top of the command loop. While running, the run goes on without a key
\* (find_run may end it); find_count-- moves the parameter, a pointer, and
\* its comparison with 0 never holds, so the counter the pointer refers to
\* keeps its value and end_find is not called here. Otherwise a pending count
\* repeats the last command without reading a key, or the first key is read,
\* and a digit (roguelike keys) or '#' (original keys) opens the count prompt.
AcceptCommand ==
    /\ pc = "AcceptCommand"
    /\ last' = "AcceptCommand"
    /\ player_free_turn' = FALSE
    /\ IF running_counter # 0
       THEN /\ \E ends \in BOOLEAN :
                  Commit([Emit(Player, <<"find_run">>) EXCEPT
                             !.running_counter = IF ends THEN 0 ELSE @])
            /\ pc' = "command"
            /\ UNCHANGED <<lastInputCommand, counter, keys_read, typed,
                           eof_flag, find_count>>
       ELSE IF command_count > 0
       THEN /\ Commit(Player)
            /\ pc' = "DispatchCommand"
            /\ UNCHANGED <<lastInputCommand, counter, keys_read, typed,
                           eof_flag, find_count>>
       ELSE /\ counter' = 0
            /\ \E k \in Keys, eof \in BOOLEAN :
                  LET prefix == \/ use_roguelike_keys /\ IsDigit(k)
                                \/ ~use_roguelike_keys /\ k = "#"
                  IN  /\ getKeyInput(k, eof)
                      /\ Commit(inkey(Player, eof))
                      /\ typed' = <<k>>
                      /\ lastInputCommand' = (IF prefix /\ k = "#" THEN "0" ELSE k)
                      /\ pc' = (IF prefix THEN "CountKey" ELSE "ControlEscape")
            /\ UNCHANGED find_count
    /\ UNCHANGED interpreterFrame

\* One round of the count loop: a backspace divides the count by 10, a digit
\* is appended unless the count is above 99 (then the bell rings); the next
\* key is read.
CountKey ==
    /\ pc = "CountKey"
    /\ last' = "CountKey"
    /\ IsBackspace(lastInputCommand) \/ IsDigit(lastInputCommand)
    /\ counter' = CountStep(counter, lastInputCommand)
    /\ \E k \in Keys, eof \in BOOLEAN :
          /\ getKeyInput(k, eof)
          /\ Commit(inkey(IF IsDigit(lastInputCommand) /\ counter > 99
                          THEN Emit(Player, <<"bell">>) ELSE Player, eof))
          /\ typed' = Append(typed, k)
          /\ lastInputCommand' = k
    /\ UNCHANGED <<interpreterFrame, pc, player_free_turn, find_count>>

\* The count loop ends at the first key that is neither digit nor backspace:
\* a count of 0 becomes 99, and after a space the command key is read.
CountEnd ==
    /\ pc = "CountKey"
    /\ last' = "CountEnd"
    /\ ~(IsBackspace(lastInputCommand) \/ IsDigit(lastInputCommand))
    /\ counter' = (IF counter = 0 THEN 99 ELSE counter)
    /\ IF lastInputCommand = " "
       THEN \E k \in Keys, eof \in BOOLEAN :
               /\ getKeyInput(k, eof)
               /\ Commit(inkey(Player, eof))
               /\ typed' = Append(typed, k)
               /\ lastInputCommand' = k
       ELSE /\ Commit(Player)
            /\ UNCHANGED <<lastInputCommand, keys_read, typed, eof_flag>>
    /\ pc' = "ControlEscape"
    /\ UNCHANGED <<interpreterFrame, player_free_turn, find_count>>

\* Another way of typing control codes: after '^' a letter gives its control
\* code; getCommand fails on ESCAPE, which gives the no-op, and any other key
\* gives the no-op and a message.
ControlEscape ==
    /\ pc = "ControlEscape"
    /\ last' = "ControlEscape"
    /\ IF lastInputCommand = "^"
       THEN \E k \in Keys, eof \in BOOLEAN :
               /\ getKeyInput(k, eof)
               /\ typed' = Append(typed, k)
               /\ lastInputCommand' = (IF k = "ESCAPE" THEN " " ELSE ControlCode(k))
               /\ Commit(IF k # "ESCAPE" /\ ~IsLetter(k)
                         THEN printMessage(inkey(Player, eof),
                                           "Type ^ <letter> for a control char")
                         ELSE inkey(Player, eof))
       ELSE /\ Commit(Player)
            /\ UNCHANGED <<lastInputCommand, keys_read, typed, eof_flag>>
    /\ pc' = "ResolveCommand"
    /\ UNCHANGED <<interpreterFrame, counter, player_free_turn, find_count>>

\* The key is converted to its roguelike form, and a count is handed to
\* command_count if the command accepts one; otherwise the command becomes
\* the no-op of a free turn.
ResolveCommand ==
    /\ pc = "ResolveCommand"
    /\ last' = "ResolveCommand"
    /\ \E g \in DirAnswers(~use_roguelike_keys /\ lastInputCommand \in {".", "T"}) :
          LET c == IF use_roguelike_keys THEN lastInputCommand
                   ELSE original_commands(lastInputCommand, g)
          IN  IF counter > 0 /\ ~valid_countcommand(c)
              THEN /\ player_free_turn' = TRUE
                   /\ lastInputCommand' = " "
                   /\ Commit([printMessage(Player, "Invalid command with a count.")
                                 EXCEPT !.command_count = 0])
              ELSE /\ lastInputCommand' = c
                   /\ Commit([Player EXCEPT !.command_count =
                                 IF counter > 0 THEN counter ELSE @])
                   /\ UNCHANGED player_free_turn
    /\ pc' = "DispatchCommand"
    /\ UNCHANGED <<interpreterFrame, counter, keys_read, typed, eof_flag,
                   find_count>>

\* do_command and the accounting after it: a run key starts the run, which
\* takes over what is left of the count; the staircase key leaves the level
\* where there is a staircase and is a free turn where there is none. The
\* loop reads another command after a free turn unless the level or the
\* input has ended.
DispatchCommand ==
    /\ pc = "DispatchCommand"
    /\ last' = "DispatchCommand"
    /\ \E g \in DirAnswers(lastInputCommand = "-"),
          stairs \in (IF lastInputCommand \in {"<", ">"} THEN BOOLEAN ELSE {FALSE}) :
          LET d == do_command(lastInputCommand, command_count, g, stairs)
              running == IF d.starts_run THEN 1 ELSE running_counter
              free == player_free_turn \/ d.free
          IN  \E a \in HandlerAnswers(d, globals.wizard_mode) :
              LET h == RunHandler(
                          [Emit(Emit(Player, <<"do_command", lastInputCommand>>),
                                d.handler)
                              EXCEPT !.command_count = d.command_count],
                          d, a, use_roguelike_keys)
                  p == [h EXCEPT !.running_counter = running,
                                 !.command_count =
                                     CountAfterCommand(running, free, h.command_count)]
              IN
              /\ Commit(p)
              /\ player_free_turn' = free
              /\ find_count' = (IF running # 0 THEN d.command_count - 1
                                ELSE find_count)
              /\ pc' = (IF AnotherCommand(free, p.generate_new_level, eof_flag)
                        THEN "AcceptCommand" ELSE "command")
    /\ UNCHANGED <<interpreterFrame, lastInputCommand, counter, keys_read,
                   typed, eof_flag>>

--------------------------------------------------------------------------
(* Initial states. *)

\* py.flags of a fed player with no effect running.
ZeroFlags ==
    [hero |-> 0, shero |-> 0, blind |-> 0, confused |-> 0, afraid |-> 0,
     poisoned |-> 0, fast |-> 0, slow |-> 0, invuln |-> 0, blessed |-> 0,
     detect_inv |-> 0, tim_infra |-> 0, rest |-> 0, see_infra |-> 0,
     see_inv |-> FALSE, speed |-> 0, regenerate |-> FALSE,
     food |-> 7500, food_digested |-> 2, paralysis |-> 0, image |-> 0,
     protevil |-> 0, resist_heat |-> 0, resist_cold |-> 0, word_recall |-> 0,
     teleport |-> FALSE]

\* The globals on the first level of the dungeon, with no light carried and
\* nothing in the pack, of a character that was generated and not saved
\* since, next to a closed door.
ZeroGlobals ==
    [current_dungeon_level |-> 1, wizard_mode |-> FALSE,
     player_carrying_light |-> FALSE, light_p1 |-> 0,
     teleport_player |-> FALSE, character_generated |-> TRUE,
     character_saved |-> FALSE, panic_save |-> FALSE,
     inventory_count |-> 0, inventory |-> [i \in Slots |-> NoItem],
     door |-> [tval |-> "TV_CLOSED_DOOR", p1 |-> 0, cptr |-> 0], spikes |-> 0]

\* No effect is running, nothing was emitted, the first turn is about to start.
InitCommon ==
    /\ out = <<>>
    /\ lastEvent = [e \in Effects |-> "none"]
    /\ pc = "turn"
    /\ last = "init"
    /\ regen_amount = 0
    /\ current_game_turn = 0
    /\ command_count = 0
    /\ running_counter = 0
    /\ character_is_dead = FALSE
    /\ generate_new_level = FALSE
    /\ raises = 0
    /\ lastInputCommand = " "
    /\ counter = 0
    /\ player_free_turn = FALSE
    /\ keys_read = 0
    /\ typed = <<>>
    /\ eof_flag = 0
    /\ find_count = 0
    /\ globals = ZeroGlobals

--------------------------------------------------------------------------
(* SpecRegen: the regeneration routines on bounded vitals. *)

\* (max, current, fraction) inputs with 0 <= current <= max: a small and a
\* near-MAX_SHORT maximum (which leaves room for the +10 and +20 of the two
\* heroisms); current at half, one below max and at max; fractions that do
\* and do not carry. The code zeroes the fraction whenever it sets current to
\* max.
HpVitals ==
    UNION {{[max |-> mx, cur |-> c, frac |-> IF c = mx THEN 0 ELSE fr] :
               c \in {mx \div 2, mx - 1, mx},
               fr \in {0, 65536 - PLAYER_REGEN_HPBASE, 65535}} :
           mx \in {10, MAX_SHORT - 30}}

ManaVitals ==
    {[max |-> 0, cur |-> 0, frac |-> 0],
     [max |-> 10, cur |-> 5, frac |-> 0],
     [max |-> 10, cur |-> 9, frac |-> 65535],
     [max |-> MAX_SHORT, cur |-> MAX_SHORT - 1, frac |-> 65535]}

InitVitals(hp, mp) ==
    /\ InitCommon
    /\ \E h \in hp, n \in mp :
          misc = [mhp |-> h.max, chp |-> h.cur, chp_frac |-> h.frac,
                  mana |-> n.max, cmana |-> n.cur, cmana_frac |-> n.frac,
                  bth |-> 30, bthb |-> 25, pac |-> 7, dis_ac |-> 9,
                  exp |-> 0, max_dlv |-> 1]
    /\ base = [mhp |-> misc.mhp, bth |-> 30, bthb |-> 25, pac |-> 7, dis_ac |-> 9,
               see_infra |-> 0, see_inv |-> FALSE]
    /\ con_adj = 0
    /\ use_roguelike_keys = FALSE

InitRegen ==
    /\ InitVitals(HpVitals, ManaVitals)
    /\ \E p \in {0, 2}, r \in BOOLEAN :
          flags = [ZeroFlags EXCEPT !.poisoned = p, !.regenerate = r]
    /\ \E s \in BOOLEAN :
          status = (IF s THEN {"PY_SEARCH"} ELSE {})
                     \cup (IF flags.poisoned > 0 THEN {"PY_POISONED"} ELSE {})

NextRegen ==
    \/ StartTurn("playerUpdateRegeneration", MaxRegenTurns)
    \/ playerUpdateRegeneration("command")
    \/ EndTurn

SpecRegen == InitRegen /\ [][NextRegen]_vars

--------------------------------------------------------------------------
(* SpecVitals: heroism, super-heroism and regeneration together. *)

InitHeroVitals ==
    /\ InitVitals(HpVitals, {[max |-> 10, cur |-> 9, frac |-> 65535]})
    /\ flags = ZeroFlags
    /\ status = {}

NextVitals ==
    \/ StartTurn("playerUpdateHeroStatus", MaxRegenTurns)
    \/ playerUpdateHeroStatus("playerUpdateRegeneration")
    \/ playerUpdateRegeneration("command")
    \/ ExternalRaise({"hero", "shero"})
    \/ EndTurn

SpecVitals == InitHeroVitals /\ [][NextVitals]_vars

--------------------------------------------------------------------------
(* SpecEffects: the paired timer/status-bit effects, in playDungeon's order. *)

\* Two characters: a wounded one (3 of 20 hit points) of the lowest
\* constitution adjustment, without infravision or see-invisible of his own,
\* and a healthy one of the highest adjustment with both.
InitEffects ==
    /\ InitCommon
    /\ \E strong \in BOOLEAN :
          /\ base = [mhp |-> 20, bth |-> 30, bthb |-> 25, pac |-> 7, dis_ac |-> 9,
                     see_infra |-> (IF strong THEN 1 ELSE 0), see_inv |-> strong]
          /\ flags = [ZeroFlags EXCEPT !.see_infra = base.see_infra,
                                       !.see_inv = strong]
          /\ misc = [mhp |-> 20, chp |-> (IF strong THEN 20 ELSE 3), chp_frac |-> 0,
                     mana |-> 0, cmana |-> 0, cmana_frac |-> 0,
                     bth |-> 30, bthb |-> 25, pac |-> 7, dis_ac |-> 9,
                     exp |-> 0, max_dlv |-> 1]
          /\ con_adj = (IF strong THEN 6 ELSE -4)
    /\ status = {}
    /\ use_roguelike_keys = FALSE

NextEffects ==
    \/ StartTurn("playerUpdateHeroStatus", MaxTurns)
    \/ playerUpdateHeroStatus("playerUpdateBlindness")
    \/ playerUpdateBlindness("playerUpdateConfusion")
    \/ playerUpdateConfusion("playerUpdateFearState")
    \/ playerUpdateFearState("playerUpdatePoisonedState")
    \/ playerUpdatePoisonedState("playerUpdateSpeed")
    \/ playerUpdateSpeed("playerUpdateInvulnerability")
    \/ playerUpdateInvulnerability("playerUpdateBlessedness")
    \/ playerUpdateBlessedness("playerUpdateDetectInvisible")
    \/ playerUpdateDetectInvisible("playerUpdateInfraVision")
    \/ playerUpdateInfraVision("command")
    \/ ExternalRaise(Effects)
    \/ EndTurn

SpecEffects == InitEffects /\ [][NextEffects]_vars

--------------------------------------------------------------------------
(* SpecCount: the command interpreter, one command per turn. *)

InitCount ==
    /\ InitCommon
    /\ base = [mhp |-> 20, bth |-> 30, bthb |-> 25, pac |-> 7, dis_ac |-> 9,
               see_infra |-> 0, see_inv |-> FALSE]
    /\ flags = ZeroFlags
    /\ status = {}
    /\ misc = [mhp |-> 20, chp |-> 20, chp_frac |-> 0,
               mana |-> 0, cmana |-> 0, cmana_frac |-> 0,
               bth |-> 30, bthb |-> 25, pac |-> 7, dis_ac |-> 9,
               exp |-> 0, max_dlv |-> 1]
    /\ con_adj = 0
    /\ use_roguelike_keys \in BOOLEAN

NextCount ==
    \/ StartTurn("AcceptCommand", MaxCountTurns)
    \/ AcceptCommand
    \/ CountKey
    \/ CountEnd
    \/ ControlEscape
    \/ ResolveCommand
    \/ DispatchCommand
    \/ EndTurn

SpecCount == InitCount /\ [][NextCount]_vars

--------------------------------------------------------------------------
(* SpecTimers: every step of a turn but the command, on characters that
   each have one part of the engine at work. *)

\* The turn counters a run starts with: a new game, and the turns before a
\* 16th turn and before a 1000th turn.
StartTurns == {0, 14, 998}

\* The turn counter the run started with.
FirstTurn(turn) ==
    CHOOSE s \in StartTurns :
       s <= turn /\ \A u \in StartTurns : u <= turn => u <= s

\* A fed and healthy character on the first level, at the start of a game.
Calm ==
    [flags |-> ZeroFlags, status |-> {}, chp |-> 20, chp_frac |-> 0,
     cmana |-> 10, max_dlv |-> 1, globals |-> ZeroGlobals, con_adj |-> 0,
     turn |-> 0]

\* Hungry, weak, fainting and starving characters, of a slow and a fast
\* digestion, with a negative speed or none, healthy or at 0 hit points.
FoodCases ==
    {[Calm EXCEPT !.flags.food = f, !.flags.food_digested = d,
                  !.flags.speed = s, !.chp = h] :
        f \in {-30, 0, 10, 250, 999, 1999},
        d \in {2, 20}, s \in {-1, 0}, h \in {0, 20}}

\* Resting characters: a count of turns or until the vitals are full, with
\* full vitals, hit points about to be full, and wounds or spent mana.
RestCases ==
    {[Calm EXCEPT !.flags.rest = r, !.status = {"PY_REST"},
                  !.chp = v[1], !.chp_frac = v[2], !.cmana = v[3]] :
        r \in {-3, -2, -1, 1, 2},
        v \in {<<20, 0, 10>>, <<19, 65000, 10>>, <<5, 0, 10>>, <<20, 0, 5>>}}

\* Frightened characters, with the fear shown already or not, with or
\* without heroism and super-heroism.
FearCases ==
    {[Calm EXCEPT !.flags.afraid = a, !.flags.hero = h, !.flags.shero = sh,
                  !.status = IF shown THEN {"PY_FEAR"} ELSE {}] :
        a \in {1, 2, 3}, h \in {0, 1, 2}, sh \in {0, 2}, shown \in BOOLEAN}

\* Characters who read the word of recall, in the town or in the dungeon,
\* having been in the dungeon before or not.
RecallCases ==
    {[Calm EXCEPT !.flags.word_recall = w,
                  !.globals.current_dungeon_level = l[1], !.max_dlv = l[2]] :
        w \in {1, 2, 3}, l \in {<<0, 0>>, <<0, 5>>, <<3, 5>>}}

\* The values of con_adj() the poison routine has a case for, and one it has
\* none for.
ConAdjustments == -4 .. 7

\* Poisoned characters of every constitution adjustment.
PoisonCases ==
    {[Calm EXCEPT !.flags.poisoned = n, !.con_adj = a] :
        n \in {1, 6}, a \in ConAdjustments}

\* Characters with the plain countdowns running, a light with some fuel or
\* none, the random teleportation, a queued teleport and what is to be
\* redrawn, in the town or the dungeon, before a 16th and a 1000th turn.
OtherCases ==
    {[Calm EXCEPT !.flags.image = t, !.flags.paralysis = t,
                  !.flags.protevil = t, !.flags.resist_heat = t,
                  !.flags.resist_cold = t, !.flags.teleport = (t > 0),
                  !.flags.confused = c,
                  !.status = IF t > 0
                             THEN {"PY_STR_WGT", "PY_STUDY", "PY_ARMOR", "PY_STR",
                                   "PY_CHR", "PY_HP", "PY_MANA"}
                             ELSE {},
                  !.globals.player_carrying_light = lit,
                  !.globals.light_p1 = fuel,
                  !.globals.teleport_player = (t = 1),
                  !.globals.current_dungeon_level = IF t = 2 THEN 0 ELSE 1,
                  !.turn = first] :
        t \in {0, 1, 2}, c \in {0, 2}, lit \in BOOLEAN, fuel \in {0, 1, 3},
        first \in {14, 998}}

\* Items that enchanted() accepts or refuses, each for one reason: no
\* enchantment; a bonus to hit, to damage, to armour; a bonus that scales
\* with p1, with p1 above 0, 0 and below 0; a power; cursed with a bonus or
\* a power; identified; marked already; a kind that is never enchanted; a
\* penalty only.
ScanItems ==
    {PlainSword,
     [PlainSword EXCEPT !.tohit = 1],
     [PlainSword EXCEPT !.todam = 2],
     [PlainSword EXCEPT !.toac = 3],
     [PlainSword EXCEPT !.stat_flags = TRUE, !.p1 = 2],
     [PlainSword EXCEPT !.stat_flags = TRUE, !.p1 = 0],
     [PlainSword EXCEPT !.stat_flags = TRUE, !.p1 = -2],
     [PlainSword EXCEPT !.power_flags = TRUE],
     [PlainSword EXCEPT !.cursed = TRUE, !.tohit = 1],
     [PlainSword EXCEPT !.cursed = TRUE, !.power_flags = TRUE],
     [PlainSword EXCEPT !.identified = TRUE, !.tohit = 1],
     [PlainSword EXCEPT !.magik = TRUE, !.tohit = 1],
     [PlainSword EXCEPT !.tval = "TV_FOOD", !.tohit = 1],
     [PlainSword EXCEPT !.tohit = -1]}

\* An inventory of `count` items `pack`, with `wielded` in the first slot of
\* the equipment and `last` in the last; every other slot is empty.
Inventory(count, pack, wielded, lastItem) ==
    [i \in Slots |-> IF i < count THEN pack
                     ELSE IF i = INVEN_WIELD THEN wielded
                     ELSE IF i = INVEN_ARRAY_SIZE - 1 THEN lastItem
                     ELSE NoItem]

\* Characters two turns before a turn that is a multiple of 16, with
\* nothing, two items or a full pack, and with or without equipment; and
\* one who stays confused over that turn.
PackCases ==
    {[Calm EXCEPT !.globals.inventory_count = n,
                  !.globals.inventory = Inventory(n, k, w, l),
                  !.turn = 14] :
        n \in {0, 2, INVEN_WIELD}, k \in ScanItems,
        w \in {NoItem, [PlainSword EXCEPT !.tohit = 1]},
        l \in {NoItem, [PlainSword EXCEPT !.cursed = TRUE, !.power_flags = TRUE]}}
       \cup
    {[Calm EXCEPT !.globals.inventory_count = 2,
                  !.globals.inventory =
                      Inventory(2, [PlainSword EXCEPT !.tohit = 1],
                                [PlainSword EXCEPT !.tohit = 1], NoItem),
                  !.flags.confused = 5,
                  !.turn = 14]}

\* The state before the first turn of the character c, after `read` keys.
InitCharacter(c, read) ==
    /\ out = <<>>
    /\ lastEvent = [e \in Effects |-> "none"]
    /\ pc = "turn"
    /\ last = "init"
    /\ regen_amount = 0
    /\ current_game_turn = c.turn
    /\ command_count = 0
    /\ running_counter = 0
    /\ character_is_dead = FALSE
    /\ generate_new_level = FALSE
    /\ raises = 0
    /\ lastInputCommand = " "
    /\ counter = 0
    /\ player_free_turn = FALSE
    /\ keys_read = read
    /\ typed = <<>>
    /\ eof_flag = 0
    /\ find_count = 0
    /\ globals = c.globals
    /\ flags = c.flags
    /\ status = c.status
    /\ base = [mhp |-> 20, bth |-> 30, bthb |-> 25, pac |-> 7, dis_ac |-> 9,
               see_infra |-> 0, see_inv |-> FALSE]
    /\ misc = [mhp |-> 20, chp |-> c.chp, chp_frac |-> c.chp_frac,
               mana |-> 10, cmana |-> c.cmana, cmana_frac |-> 0,
               bth |-> 30, bthb |-> 25, pac |-> 7, dis_ac |-> 9,
               exp |-> 0, max_dlv |-> c.max_dlv]
    /\ con_adj = c.con_adj

InitTimers ==
    /\ \E c \in FoodCases \cup RestCases \cup FearCases \cup RecallCases
                  \cup PoisonCases \cup OtherCases \cup PackCases :
          InitCharacter(c, 0)
    /\ use_roguelike_keys = FALSE

\* Mutant: the heroism update comes after the poison.
StatusSteps_herolate(then) ==
    \/ storeMaintenance("alloc_monster")
    \/ monsterGeneration("playerUpdateLightStatus")
    \/ playerUpdateLightStatus("playerFoodConsumption")
    \/ playerUpdateHeroStatus("playerUpdateSpeed")
    \/ playerFoodConsumption("playerUpdateRegeneration")
    \/ playerUpdateRegeneration("playerUpdateBlindness")
    \/ playerUpdateBlindness("playerUpdateConfusion")
    \/ playerUpdateConfusion("playerUpdateFearState")
    \/ playerUpdateFearState("playerUpdatePoisonedState")
    \/ playerUpdatePoisonedState("playerUpdateHeroStatus")
    \/ playerUpdateSpeed("playerUpdateRestingState")
    \/ playerUpdateRestingState("checkForNonBlockingKeyPress")
    \/ pollKeypress("playerUpdateHallucination")
    \/ playerUpdateHallucination("playerUpdateParalysis")
    \/ playerUpdateParalysis("playerUpdateEvilProtection")
    \/ playerUpdateEvilProtection("playerUpdateInvulnerability")
    \/ playerUpdateInvulnerability("playerUpdateBlessedness")
    \/ playerUpdateBlessedness("playerUpdateHeatResistance")
    \/ playerUpdateHeatResistance("playerUpdateColdResistance")
    \/ playerUpdateColdResistance("playerUpdateDetectInvisible")
    \/ playerUpdateDetectInvisible("playerUpdateInfraVision")
    \/ playerUpdateInfraVision("playerUpdateWordOfRecall")
    \/ playerUpdateWordOfRecall("teleport")
    \/ randomTeleport("check_strength")
    \/ checkStrengthAndStudy("playerUpdateStatusFlags")
    \/ playerUpdateStatusFlags("playerDetectEnchantment")
    \/ detectEnchantment("compact_monsters")
    \/ compactMonsters(then)

\* The steps of a turn after the turn counter, up to the command: each hands
\* over to the next of the loop of playDungeon, the last one to `then`.
StatusSteps(then) ==
    \/ storeMaintenance("alloc_monster")
    \/ monsterGeneration("playerUpdateLightStatus")
    \/ playerUpdateLightStatus("playerUpdateHeroStatus")
    \/ playerUpdateHeroStatus("playerFoodConsumption")
    \/ playerFoodConsumption("playerUpdateRegeneration")
    \/ playerUpdateRegeneration("playerUpdateBlindness")
    \/ playerUpdateBlindness("playerUpdateConfusion")
    \/ playerUpdateConfusion("playerUpdateFearState")
    \/ playerUpdateFearState("playerUpdatePoisonedState")
    \/ playerUpdatePoisonedState("playerUpdateSpeed")
    \/ playerUpdateSpeed("playerUpdateRestingState")
    \/ playerUpdateRestingState("checkForNonBlockingKeyPress")
    \/ pollKeypress("playerUpdateHallucination")
    \/ playerUpdateHallucination("playerUpdateParalysis")
    \/ playerUpdateParalysis("playerUpdateEvilProtection")
    \/ playerUpdateEvilProtection("playerUpdateInvulnerability")
    \/ playerUpdateInvulnerability("playerUpdateBlessedness")
    \/ playerUpdateBlessedness("playerUpdateHeatResistance")
    \/ playerUpdateHeatResistance("playerUpdateColdResistance")
    \/ playerUpdateColdResistance("playerUpdateDetectInvisible")
    \/ playerUpdateDetectInvisible("playerUpdateInfraVision")
    \/ playerUpdateInfraVision("playerUpdateWordOfRecall")
    \/ playerUpdateWordOfRecall("teleport")
    \/ randomTeleport("check_strength")
    \/ checkStrengthAndStudy("playerUpdateStatusFlags")
    \/ playerUpdateStatusFlags("playerDetectEnchantment")
    \/ detectEnchantment("compact_monsters")
    \/ compactMonsters(then)

NextTimers ==
    \/ StartTurn("store_maint", FirstTurn(current_game_turn) + MaxTimerTurns)
    \/ StatusSteps("command")
    \/ EndTurn

SpecTimers == InitTimers /\ [][NextTimers]_vars

--------------------------------------------------------------------------
(* SpecTurn: the whole turn, the command included. *)

\* A calm character; a paralysed and a resting one; one that poison kills,
\* one that heroism saves from it, and one that starves in the turn; one the word of recall takes away in the
\* turn; one with a teleport queued.
TurnCases ==
    {Calm,
     [Calm EXCEPT !.flags.paralysis = 2],
     [Calm EXCEPT !.flags.rest = 1, !.status = {"PY_REST"}],
     [Calm EXCEPT !.flags.rest = -2, !.status = {"PY_REST"}, !.chp = 5],
     [Calm EXCEPT !.flags.poisoned = 3, !.chp = 3, !.con_adj = -4],
     [Calm EXCEPT !.flags.poisoned = 3, !.chp = 3, !.con_adj = -4,
                  !.flags.hero = 2],
     [Calm EXCEPT !.flags.food = -40, !.flags.food_digested = 20, !.chp = 2],
     [Calm EXCEPT !.flags.word_recall = 1],
     [Calm EXCEPT !.globals.teleport_player = TRUE]}

\* playDungeon runs once for each level: the keys of the levels before were
\* read already, and MaxTurnKeys keys are left for this one.
InitTurn ==
    /\ \E c \in TurnCases : InitCharacter(c, MaxKeys - MaxTurnKeys)
    /\ use_roguelike_keys \in BOOLEAN

NextTurn ==
    \/ StartTurn("store_maint", MaxFullTurns)
    \/ StatusSteps("executeInputCommands")
    \/ commandAcceptance("AcceptCommand", "command")
    \/ AcceptCommand
    \/ CountKey
    \/ CountEnd
    \/ ControlEscape
    \/ ResolveCommand
    \/ DispatchCommand
    \/ EndTurn

SpecTurn == InitTurn /\ [][NextTurn]_vars

--------------------------------------------------------------------------
(* SpecTables: the key tables as functions of a key code: valid_countcommand,
   original_commands, and do_command with its moveWithoutPickup. *)

\* The printable codes 32..126 (DQUOTE is the double quote, 34,
\* BACKQUOTE the grave accent, 96).
PrintableCodes ==
    {" ", "!", "DQUOTE", "#", "$", "%", "&", "'", "(", ")", "*", "+", ",", "-",
     ".", "/", "0", "1", "2", "3", "4", "5", "6", "7", "8", "9", ":", ";",
     "<", "=", ">", "?", "@", "A", "B", "C", "D", "E", "F", "G", "H", "I",
     "J", "K", "L", "M", "N", "O", "P", "Q", "R", "S", "T", "U", "V", "W",
     "X", "Y", "Z", "[", "\\", "]", "^", "_", "BACKQUOTE", "a", "b", "c", "d", "e",
     "f", "g", "h", "i", "j", "k", "l", "m", "n", "o", "p", "q", "r", "s",
     "t", "u", "v", "w", "x", "y", "z", "{", "|", "}", "~"}

\* The 8-bit key codes: the printable ones, the control codes 1..26, ESCAPE
\* (27), DELETE (127), and NUL, 28 and two codes above 127 for the codes no
\* table has a case for.
Codes ==
    PrintableCodes \cup {ControlKeys[i] : i \in 1 .. 26}
       \cup {"ESCAPE", "DELETE", "NUL", "0x1C", "0x80", "0xFF"}

\* The counts a command can start with.
StartCounts == {0, 3}

\* A code and a pending count, with or without the wizard mode and with or
\* without experience, before any of the tables is applied.
InitTables ==
    /\ out = <<>>
    /\ lastEvent = [e \in Effects |-> "none"]
    /\ pc = "table"
    /\ last = "init"
    /\ regen_amount = 0
    /\ current_game_turn = 0
    /\ command_count \in StartCounts
    /\ running_counter = 0
    /\ character_is_dead = FALSE
    /\ generate_new_level = FALSE
    /\ raises = 0
    /\ lastInputCommand \in Codes
    /\ counter = 0
    /\ player_free_turn = FALSE
    /\ keys_read = 0
    /\ typed = <<>>
    /\ eof_flag = 0
    /\ find_count = 0
    /\ \E w \in BOOLEAN : globals = [ZeroGlobals EXCEPT !.wizard_mode = w]
    /\ base = [mhp |-> 20, bth |-> 30, bthb |-> 25, pac |-> 7, dis_ac |-> 9,
               see_infra |-> 0, see_inv |-> FALSE]
    /\ flags = ZeroFlags
    /\ status = {}
    /\ \E x \in {0, 3} :
          misc = [mhp |-> 20, chp |-> 20, chp_frac |-> 0,
                  mana |-> 0, cmana |-> 0, cmana_frac |-> 0,
                  bth |-> 30, bthb |-> 25, pac |-> 7, dis_ac |-> 9,
                  exp |-> x, max_dlv |-> 1]
    /\ con_adj = 0
    /\ use_roguelike_keys = FALSE

\* What applying a table leaves alone.
tablesFrame ==
    <<flags, status, misc, base, lastEvent, pc, regen_amount, current_game_turn,
      con_adj, running_counter, character_is_dead, generate_new_level, raises,
      use_roguelike_keys, lastInputCommand, counter, keys_read, typed,
      eof_flag, find_count, globals>>

\* valid_countcommand(lastInputCommand)
ApplyValidCountCommand ==
    /\ pc = "table"
    /\ last' = "valid_countcommand"
    /\ out' = << <<"valid_countcommand", valid_countcommand(lastInputCommand)>> >>
    /\ UNCHANGED <<tablesFrame, command_count, player_free_turn>>

\* original_commands(lastInputCommand)
ApplyOriginalCommands ==
    /\ pc = "table"
    /\ last' = "original_commands"
    /\ \E g \in DirAnswers(lastInputCommand \in {".", "T"}) :
          out' = << <<"get_dir", g>>,
                    <<"original_commands", original_commands(lastInputCommand, g)>> >>
    /\ UNCHANGED <<tablesFrame, command_count, player_free_turn>>

\* do_command(lastInputCommand), once
ApplyDoCommand ==
    /\ pc = "table"
    /\ last' = "do_command"
    /\ \E g \in DirAnswers(lastInputCommand = "-"),
          stairs \in (IF lastInputCommand \in {"<", ">"} THEN BOOLEAN ELSE {FALSE}) :
          LET d == do_command(lastInputCommand, command_count, g, stairs)
          IN  \E a \in HandlerAnswers(d, globals.wizard_mode) :
                 /\ Commit(RunHandler(
                        [Player EXCEPT !.out = << <<"get_dir", g>>,
                                                 <<"do_command", d.com_val, d.do_pickup>>,
                                                 d.handler >>,
                                       !.command_count = d.command_count],
                        d, a, use_roguelike_keys))
                 /\ player_free_turn' = d.free
    /\ pc' = "applied"
    /\ UNCHANGED <<base, lastEvent, regen_amount, current_game_turn, con_adj,
                   raises, use_roguelike_keys, lastInputCommand, counter,
                   keys_read, typed, eof_flag, find_count>>

NextTables ==
    \/ ApplyValidCountCommand
    \/ ApplyOriginalCommands
    \/ ApplyDoCommand

SpecTables == InitTables /\ [][NextTables]_vars

--------------------------------------------------------------------------
(* SpecInput: inkey and the routines that wait for a key. *)

\* ^R keys one call of inkey can read before the key it returns
MaxRedraws == 1
\* calls of inkey in one run of SpecInput
MaxInkeys == 2
\* calls of inkey in one run of SpecEof
MaxEofInkeys == 110

\* CTRL_KEY('R')
CTRL_R == ControlKeys[18]

\* What getch() returns: the end of the input, ^R, and the keys the waiting
\* routines tell apart.
GetchResults == {"EOF", CTRL_R, " ", "ESCAPE", "^M", "y"}

\* n times ^R
RedrawKeys(n) == [i \in 1 .. n |-> CTRL_R]

\* What the terminal holds for one call of inkey: the keys getch() returns
\* one after the other: some ^R, a key that is not ^R, and then nothing or
\* one more ^R, which is for the next call.
Streams(results) ==
    {RedrawKeys(n) \o <<k>> \o rest :
        n \in (IF CTRL_R \in results THEN 0 .. MaxRedraws ELSE {0}),
        k \in results \ {CTRL_R},
        rest \in (IF CTRL_R \in results THEN {<<>>, <<CTRL_R>>} ELSE {<<>>})}

\* Mutant: the end of the input is never fatal.
EndOfInput_forever(p, eof, saved) ==
    [p |-> disturb(Emit(p, <<"refresh">>), 1, 0), eof_flag |-> eof + 1,
     value |-> "ESCAPE", exited |-> FALSE]

\* Mutant: the game is given up at the hundredth end of the input.
EndOfInput_hundred(p, eof, saved) ==
    LET n == eof + 1
        p0 == Emit(p, <<"refresh">>)
    IN  IF ~p.globals.character_generated \/ p.globals.character_saved
        THEN [p |-> Emit(p0, <<"exit_game">>), eof_flag |-> n,
              value |-> "none", exited |-> TRUE]
        ELSE LET p1 == disturb(p0, 1, 0)
             IN  IF n >= 100
                 THEN [p |-> Emit(Emit([p1 EXCEPT !.globals.panic_save = TRUE,
                                                   !.character_is_dead = @ \/ ~saved],
                                       <<"save_char", saved>>), <<"exit_game">>),
                       eof_flag |-> n, value |-> "none", exited |-> TRUE]
                 ELSE [p |-> p1, eof_flag |-> n, value |-> "ESCAPE",
                       exited |-> FALSE]

\* inkey() when getch() returns EOF, eof_flag being eof: the end is counted;
\* without a character to save the game is left; otherwise the player is
\* disturbed, and past 100 ends the character is saved in a panic (saved
\* tells whether save_char succeeds; if not, death is set) and the game is
\* left; up to 100 the caller gets ESCAPE.
EndOfInput(p, eof, saved) ==
    LET n == eof + 1
        p0 == Emit(p, <<"refresh">>)
    IN  IF ~p.globals.character_generated \/ p.globals.character_saved
        THEN [p |-> Emit(p0, <<"exit_game">>), eof_flag |-> n,
              value |-> "none", exited |-> TRUE]
        ELSE LET p1 == disturb(p0, 1, 0)
             IN  IF n > 100
                 THEN [p |-> Emit(Emit([p1 EXCEPT !.globals.panic_save = TRUE,
                                                   !.character_is_dead = @ \/ ~saved],
                                       <<"save_char", saved>>), <<"exit_game">>),
                       eof_flag |-> n, value |-> "none", exited |-> TRUE]
                 ELSE [p |-> p1, eof_flag |-> n, value |-> "ESCAPE",
                       exited |-> FALSE]

\* Mutant: a ^R is returned to the caller like any other key.
RECURSIVE inkeyLoop_returns(_, _, _, _, _)
inkeyLoop_returns(p, eof, stream, read, saved) ==
    LET i == stream[read + 1]
    IN  IF i = "EOF"
        THEN EndOfInput(p, eof, saved) @@ [read |-> read + 1]
        ELSE [p |-> p, eof_flag |-> eof, value |-> i, exited |-> FALSE,
              read |-> read + 1]

\* The while (true) of inkey() after `read` keys of the stream: a ^R redraws
\* the screen, resets the terminal and reads on; the end of the input and
\* any other key end the loop.
RECURSIVE inkeyLoop(_, _, _, _, _)
inkeyLoop(p, eof, stream, read, saved) ==
    LET i == stream[read + 1]
    IN  IF i = "EOF"
        THEN EndOfInput(p, eof, saved) @@ [read |-> read + 1]
        ELSE IF i # CTRL_R
        THEN [p |-> p, eof_flag |-> eof, value |-> i, exited |-> FALSE,
              read |-> read + 1]
        ELSE inkeyLoop(Emit(Emit(p, <<"wrefresh", "curscr">>), <<"moriaterm">>),
                       eof, stream, read + 1, saved)

\* inkey() on a terminal that holds `stream`: the value returned, the number
\* of keys read, eof_flag, and whether the game was left instead.
inkeyCall(p, eof, stream, saved) ==
    inkeyLoop(Emit([p EXCEPT !.command_count = 0], <<"put_qio">>), eof, stream,
              0, saved)

\* What no call of inkey changes.
inputFrame ==
    <<base, lastEvent, regen_amount, current_game_turn, con_adj, raises,
      use_roguelike_keys, counter, player_free_turn, find_count>>

\* One call of inkey() by `routine`, which is entered or goes on; it is left
\* when the key is one of `leaving`. Whether save_char succeeds matters only
\* to the call that ends the game.
KeyWait(routine, results, leaving, limit) ==
    /\ pc \in {"idle", routine}
    /\ keys_read < limit
    /\ \E stream \in Streams(results) :
          \E saved \in (IF /\ eof_flag >= 100
                           /\ globals.character_generated
                           /\ ~globals.character_saved
                           /\ \E n \in 1 .. Len(stream) : stream[n] = "EOF"
                        THEN BOOLEAN ELSE {TRUE}) :
             LET r == inkeyCall(Player, eof_flag, stream, saved)
             IN  /\ Commit(r.p)
                 /\ eof_flag' = r.eof_flag
                 /\ lastInputCommand' = r.value
                 /\ typed' = SubSeq(stream, 1, r.read)
                 /\ pc' = (IF r.exited THEN "exited"
                           ELSE IF r.value \in leaving THEN "idle"
                           ELSE routine)
    /\ keys_read' = keys_read + 1
    /\ last' = routine
    /\ UNCHANGED inputFrame

\* The -more- wait of msg_print: do in_char = inkey(); while it is none of
\* space, ESCAPE, newline and return.
msg_print_more(results, limit) ==
    KeyWait("msg_print", results, {" ", "ESCAPE", "^J", "^M"}, limit)

\* get_check: do res = inkey(); while (res == ' ')
get_check(results, limit) ==
    KeyWait("get_check", results, (GetchResults \cup {"ESCAPE"}) \ {" "}, limit)

\* get_com: *command = inkey(), once
get_com(results, limit) ==
    KeyWait("get_com", results, GetchResults \cup {"ESCAPE"}, limit)

\* get_string: the loop is left on ESCAPE (aborted) and on newline or
\* return (flag).
get_string(results, limit) ==
    KeyWait("get_string", results, {"ESCAPE", "^J", "^M"}, limit)

\* How often the end of the input was seen before.
EofStarts == {0, 99, 100}

\* What the player is doing when the key is asked for: nothing, searching
\* with a repeat count pending, resting, or running.
Busy ==
    {[command_count |-> 0, rest |-> 0, status |-> {}, running_counter |-> 0,
      speed |-> 0],
     [command_count |-> 3, rest |-> 0, status |-> {"PY_SEARCH"},
      running_counter |-> 0, speed |-> 1],
     [command_count |-> 0, rest |-> 5, status |-> {"PY_REST"},
      running_counter |-> 0, speed |-> 0],
     [command_count |-> 0, rest |-> 0, status |-> {}, running_counter |-> 1,
      speed |-> 0]}

\* A character that is generated and not saved, generated and saved, or not
\* generated yet.
SaveStates ==
    {[character_generated |-> TRUE, character_saved |-> FALSE],
     [character_generated |-> TRUE, character_saved |-> TRUE],
     [character_generated |-> FALSE, character_saved |-> FALSE]}

\* The game between two waits for a key (idle) or at the top of the loop of
\* playDungeon.
InitWaiting(eofs, saves, busy, paralysis, at) ==
    /\ out = <<>>
    /\ lastEvent = [e \in Effects |-> "none"]
    /\ pc \in at
    /\ last = "init"
    /\ regen_amount = 0
    /\ current_game_turn = 0
    /\ character_is_dead = FALSE
    /\ generate_new_level = FALSE
    /\ raises = 0
    /\ lastInputCommand = " "
    /\ counter = 0
    /\ player_free_turn = FALSE
    /\ keys_read = 0
    /\ typed = <<>>
    /\ eof_flag \in eofs
    /\ find_count = 0
    /\ base = [mhp |-> 20, bth |-> 30, bthb |-> 25, pac |-> 7, dis_ac |-> 9,
               see_infra |-> 0, see_inv |-> FALSE]
    /\ misc = [mhp |-> 20, chp |-> 20, chp_frac |-> 0,
               mana |-> 0, cmana |-> 0, cmana_frac |-> 0,
               bth |-> 30, bthb |-> 25, pac |-> 7, dis_ac |-> 9,
               exp |-> 0, max_dlv |-> 1]
    /\ con_adj = 0
    /\ use_roguelike_keys = FALSE
    /\ \E s \in saves :
          globals = [ZeroGlobals EXCEPT
                        !.character_generated = s.character_generated,
                        !.character_saved = s.character_saved]
    /\ \E b \in busy, t \in paralysis :
          /\ command_count = b.command_count
          /\ running_counter = b.running_counter
          /\ status = b.status \cup (IF t > 0 THEN {"PY_PARALYSED"} ELSE {})
          /\ flags = [ZeroFlags EXCEPT !.rest = b.rest, !.speed = b.speed,
                                       !.paralysis = t]

InitInput == InitWaiting(EofStarts, SaveStates, Busy, {0}, {"idle"})

NextInput ==
    \/ msg_print_more(GetchResults, MaxInkeys)
    \/ get_check(GetchResults, MaxInkeys)
    \/ get_com(GetchResults, MaxInkeys)
    \/ get_string(GetchResults, MaxInkeys)

SpecInput == InitInput /\ [][NextInput]_vars

--------------------------------------------------------------------------
(* SpecEof: the routines that wait for a key and the loops of playDungeon
   and executeInputCommands on a terminal whose input has ended: every
   getch() returns EOF. A run ends when find_run meets an obstacle, which
   happens sooner or later in a level of finite size. *)

\* resetDungeonFlags(), called when playDungeon is entered
resetDungeonFlags(p) ==
    [p EXCEPT !.command_count = 0, !.generate_new_level = FALSE,
              !.running_counter = 0, !.globals.teleport_player = FALSE]

\* What the loops change of the input variables only by calling inkey.
loopFrame == <<inputFrame, keys_read, typed, eof_flag, lastInputCommand>>

\* playDungeon is entered.
enterPlayDungeon ==
    /\ pc = "idle"
    /\ Commit(resetDungeonFlags(Player))
    /\ pc' = "playDungeon"
    /\ last' = "resetDungeonFlags"
    /\ UNCHANGED loopFrame

\* Where the turn goes on after its command, or without one: the loop of
\* playDungeon runs on or is left.
AfterCommand(new_level, eof) ==
    IF AnotherTurn(new_level, eof) THEN "playDungeon" ELSE "idle"

\* A turn of playDungeon up to its command: the resting counter and the
\* paralysis are updated and decide whether a command is accepted.
playDungeonTurn ==
    /\ pc = "playDungeon"
    /\ LET p == UpdateParalysis(UpdateRestingState(Player))
       IN  /\ Commit(p)
           /\ pc' = (IF CommandAccepted(p.flags.paralysis, p.flags.rest,
                                        p.character_is_dead)
                     THEN "executeInputCommands"
                     ELSE AfterCommand(p.generate_new_level, eof_flag))
    /\ last' = "playDungeon"
    /\ UNCHANGED loopFrame

\* A pass of the loop of executeInputCommands while running: find_run takes
\* a step without a key, the turn is not free and the loop is left.
runGoesOn ==
    /\ pc = "executeInputCommands"
    /\ running_counter # 0
    /\ Commit(Emit(Player, <<"find_run">>))
    /\ pc' = AfterCommand(generate_new_level, eof_flag)
    /\ last' = "find_run"
    /\ UNCHANGED loopFrame

\* The same, and find_run ends the run.
runEnds ==
    /\ pc = "executeInputCommands"
    /\ running_counter # 0
    /\ Commit([Emit(Player, <<"find_run">>) EXCEPT !.running_counter = 0])
    /\ pc' = AfterCommand(generate_new_level, eof_flag)
    /\ last' = "end_find"
    /\ UNCHANGED loopFrame

\* A pass with a repeat count pending: the last command is run again
\* without a key; a free turn clears the count, any other takes one off.
repeatedCommand ==
    /\ pc = "executeInputCommands"
    /\ running_counter = 0
    /\ command_count > 0
    /\ \E free \in BOOLEAN :
          /\ Commit([Emit(Player, <<"do_command", lastInputCommand>>) EXCEPT
                        !.command_count = CountAfterCommand(0, free, @)])
          /\ pc' = (IF AnotherCommand(free, generate_new_level, eof_flag)
                    THEN "executeInputCommands"
                    ELSE AfterCommand(generate_new_level, eof_flag))
    /\ last' = "do_command"
    /\ UNCHANGED loopFrame

\* A pass that reads its key at the end of the input: inkey returns ESCAPE
\* or leaves the game; ESCAPE is no count and no control prefix, and
\* do_command gives a free turn for it.
commandAtEndOfInput(limit) ==
    /\ pc = "executeInputCommands"
    /\ running_counter = 0
    /\ command_count = 0
    /\ keys_read < limit
    /\ \E saved \in (IF /\ eof_flag >= 100
                        /\ globals.character_generated
                        /\ ~globals.character_saved
                     THEN BOOLEAN ELSE {TRUE}) :
          LET r == inkeyCall(Player, eof_flag, <<"EOF">>, saved)
              free == do_command_free("ESCAPE")
          IN  /\ Commit(IF r.exited THEN r.p
                        ELSE Emit(r.p, <<"do_command", r.value>>))
              /\ eof_flag' = r.eof_flag
              /\ lastInputCommand' = r.value
              /\ typed' = <<"EOF">>
              /\ pc' = (IF r.exited THEN "exited"
                        ELSE IF AnotherCommand(free, r.p.generate_new_level,
                                               r.eof_flag)
                        THEN "executeInputCommands"
                        ELSE AfterCommand(r.p.generate_new_level, r.eof_flag))
    /\ keys_read' = keys_read + 1
    /\ last' = "executeInputCommands"
    /\ UNCHANGED inputFrame

\* The input ends before inkey has seen any end, or after 99 ends; the
\* player may be paralysed for two more turns.
InitEof ==
    InitWaiting({0, 99}, SaveStates, Busy, {0, 2}, {"idle", "playDungeon"})

NextEof ==
    \/ msg_print_more({"EOF"}, MaxEofInkeys)
    \/ get_check({"EOF"}, MaxEofInkeys)
    \/ get_com({"EOF"}, MaxEofInkeys)
    \/ get_string({"EOF"}, MaxEofInkeys)
    \/ enterPlayDungeon
    \/ playDungeonTurn
    \/ runGoesOn
    \/ runEnds
    \/ repeatedCommand
    \/ commandAtEndOfInput(MaxEofInkeys)

SpecEof ==
    InitEof /\ [][NextEof]_vars /\ WF_vars(NextEof) /\ SF_vars(runEnds)

--------------------------------------------------------------------------
(* SpecJam: jamdoor on the object next to the player, spike after spike. *)

\* spikes carried at the start of a run of SpecJam
MaxSpikes == 11

\* t_ptr->p1 -= 1 + 190 / (10 - t_ptr->p1), in an int16_t, for p1 <= 0
SpikedP1(p1) == Int16(p1 - (1 + 190 \div (10 - p1)))

\* jamdoor(): dir_ok tells whether get_dir gives a direction. The turn is
\* free unless a spike is used or a creature is in the way. The object in
\* that direction (tval TV_NOTHING for tptr == 0) must be a closed door;
\* with no creature in the doorway and a spike in the pack, a locked door
\* (p1 > 0) becomes a stuck one by negation, the spike adds to the
\* strength of the jam, and the spike is used up.
jamdoor(p, dir_ok) ==
    LET d == p.globals.door
    IN  IF ~dir_ok
        THEN [p |-> Emit(p, <<"get_dir", FALSE>>), free |-> TRUE]
        ELSE LET p0 == Emit(p, <<"get_dir", TRUE>>)
             IN  IF d.tval \notin {"TV_CLOSED_DOOR", "TV_OPEN_DOOR"}
                 THEN [p |-> printMessage(p0, "That isn't a door!"),
                       free |-> TRUE]
                 ELSE IF d.tval = "TV_OPEN_DOOR"
                 THEN [p |-> printMessage(p0, "The door must be closed first."),
                       free |-> TRUE]
                 ELSE IF d.cptr # 0
                 THEN [p |-> printMessage(p0, "The creature is in your way!"),
                       free |-> FALSE]
                 ELSE IF p.globals.spikes = 0
                 THEN [p |-> printMessage(p0, "But you have no spikes."),
                       free |-> TRUE]
                 ELSE LET stuck == IF d.p1 > 0 THEN 0 - d.p1 ELSE d.p1
                      IN  [p |-> [Emit(p0, <<"printMessageNoCommandInterrupt",
                                             "You jam the door with a spike.">>)
                                    EXCEPT !.globals.door.p1 = SpikedP1(stuck),
                                           !.globals.spikes = @ - 1],
                           free |-> FALSE]

\* What is next to the player: nothing, rubble, an open door, a closed door
\* that is unlocked (p1 = 0) or locked (p1 > 0), with or without a creature
\* in the doorway.
Doorways ==
    {[tval |-> "TV_NOTHING", p1 |-> 0, cptr |-> 0],
     [tval |-> "TV_RUBBLE", p1 |-> 0, cptr |-> 0],
     [tval |-> "TV_OPEN_DOOR", p1 |-> 0, cptr |-> 0]}
       \cup {[tval |-> "TV_CLOSED_DOOR", p1 |-> l, cptr |-> c] :
                l \in {0, 1, 5}, c \in {0, 3}}

\* The player stands next to one of the doorways with some spikes.
InitJam ==
    /\ out = <<>>
    /\ lastEvent = [e \in Effects |-> "none"]
    /\ pc = "jamdoor"
    /\ last = "init"
    /\ regen_amount = 0
    /\ current_game_turn = 0
    /\ command_count = 0
    /\ running_counter = 0
    /\ character_is_dead = FALSE
    /\ generate_new_level = FALSE
    /\ raises = 0
    /\ lastInputCommand = "S"
    /\ counter = 0
    /\ player_free_turn = FALSE
    /\ keys_read = 0
    /\ typed = <<>>
    /\ eof_flag = 0
    /\ find_count = 0
    /\ base = [mhp |-> 20, bth |-> 30, bthb |-> 25, pac |-> 7, dis_ac |-> 9,
               see_infra |-> 0, see_inv |-> FALSE]
    /\ misc = [mhp |-> 20, chp |-> 20, chp_frac |-> 0,
               mana |-> 0, cmana |-> 0, cmana_frac |-> 0,
               bth |-> 30, bthb |-> 25, pac |-> 7, dis_ac |-> 9,
               exp |-> 0, max_dlv |-> 1]
    /\ con_adj = 0
    /\ use_roguelike_keys = FALSE
    /\ flags = ZeroFlags
    /\ status = {}
    /\ \E d \in Doorways, n \in {0, 1, MaxSpikes} :
          globals = [ZeroGlobals EXCEPT !.door = d, !.spikes = n]

\* The spike command.
spikeDoor ==
    /\ pc = "jamdoor"
    /\ \E dir_ok \in BOOLEAN :
          LET r == jamdoor(Player, dir_ok)
          IN  /\ Commit(r.p)
              /\ player_free_turn' = r.free
    /\ last' = "jamdoor"
    /\ UNCHANGED <<base, lastEvent, pc, regen_amount, current_game_turn,
                   con_adj, raises, use_roguelike_keys, lastInputCommand,
                   counter, keys_read, typed, eof_flag, find_count>>

NextJam == spikeDoor

SpecJam == InitJam /\ [][NextJam]_vars

--------------------------------------------------------------------------
(* Claims about regeneration (SpecRegen). *)

\* The step just taken was the regeneration step of a turn.
RegenRan == last' = "playerUpdateRegeneration"

\* The percent that step passed to regenhp and regenmana.
PercentUsed == RegenPercent(flags, status, regen_amount')

\* The distance to full, in 1/65536 points: max*65536 - (current*65536 + frac).
\* (Stated as a distance so that every intermediate value fits the 32-bit
\* integers of the model checker.)
Deficit(cur, frac, max) == (max - cur) * 65536 - frac

\* current*65536 + frac has become
\* min(old current*65536 + old frac + max*percent + bias, max*65536).
Accumulates(cur, frac, max, cur2, frac2, percent, bias) ==
    /\ cur2 \in cur .. max
    /\ frac2 \in 0 .. 65535
    /\ LET gain == max * percent + bias
           d == Deficit(cur, frac, max)
       IN  Deficit(cur2, frac2, max) = (IF d > gain THEN d - gain ELSE 0)
    /\ (cur2 = max => frac2 = 0)

HpAccumulates ==
    Accumulates(misc.chp, misc.chp_frac, misc.mhp, misc'.chp, misc'.chp_frac,
                PercentUsed, PLAYER_REGEN_HPBASE)

ManaAccumulates ==
    Accumulates(misc.cmana, misc.cmana_frac, misc.mana, misc'.cmana, misc'.cmana_frac,
                PercentUsed, PLAYER_REGEN_MNBASE)

\* C6: regenhp and regenmana are a 16.16 fixed-point accumulation with clamp:
\* whenever one of them is called (current < max), current*65536 + frac becomes
\* min(old current*65536 + old frac + max*rate + base constant, max*65536), the
\* fraction stays below 2^16 (a carry moves exactly one whole point), and the
\* fraction is 0 whenever the result reaches max.
C6_FixedPointAccumulation ==
    [][RegenRan =>
          /\ (RegenHpGate(flags, misc) => HpAccumulates)
          /\ (RegenManaGate(flags, misc) => ManaAccumulates)]_vars

\* The same statement away from the 16-bit boundary (no whole-point gain or
\* carry reaches MAX_SHORT).
T6_AccumulationBelowMaxShort ==
    [][RegenRan =>
          /\ (RegenHpGate(flags, misc) /\ misc.mhp < MAX_SHORT - 30 => HpAccumulates)
          /\ (RegenManaGate(flags, misc) /\ misc.mana < MAX_SHORT => ManaAccumulates)]_vars

\* C8: regeneration never wraps the 16-bit current value: after regenhp
\* (regenmana) old current <= new current <= max, also when the whole-point
\* gain plus a fractional carry passes MAX_SHORT.
C8_NoWrap ==
    [][RegenRan =>
          /\ (RegenHpGate(flags, misc) =>
                misc.chp <= misc'.chp /\ misc'.chp <= misc'.mhp)
          /\ (RegenManaGate(flags, misc) =>
                misc.cmana <= misc'.cmana /\ misc'.cmana <= misc'.mana)]_vars

\* C7 (as claimed): a regeneration call with rate 0 never changes the current
\* value, whatever the fractional accumulator holds.
C7_RateZeroNeverChanges ==
    [][RegenRan /\ PercentUsed = 0 =>
          /\ (RegenHpGate(flags, misc) => misc'.chp = misc.chp)
          /\ (RegenManaGate(flags, misc) => misc'.cmana = misc.cmana)]_vars

\* C7 (amended): a regeneration call with rate 0 still adds the base constant
\* to the fractional accumulator: current is unchanged when old frac + base
\* constant < 2^16 and is exactly one higher otherwise.
C7_RateZeroAddsBase ==
    [][RegenRan /\ PercentUsed = 0 =>
          /\ (RegenHpGate(flags, misc) =>
                misc'.chp = misc.chp +
                    (IF misc.chp_frac + PLAYER_REGEN_HPBASE >= 65536 THEN 1 ELSE 0))
          /\ (RegenManaGate(flags, misc) =>
                misc'.cmana = misc.cmana +
                    (IF misc.cmana_frac + PLAYER_REGEN_MNBASE >= 65536 THEN 1 ELSE 0))]_vars

\* A rate-0 call of regenhp has carried a whole point: the fraction left is
\* below the base constant, which only a carry (or a clamp) produces.
C7_Witness ==
    /\ last = "playerUpdateRegeneration"
    /\ current_game_turn = 1
    /\ regen_amount = 0
    /\ flags.poisoned < 1
    /\ misc.mhp = 10
    /\ misc.chp = 6
    /\ misc.chp_frac < PLAYER_REGEN_HPBASE

\* C9: poison suppresses HP regeneration entirely: a regeneration step taken
\* with the poison timer >= 1 leaves current HP and its fraction as they were,
\* while mana and its fraction become exactly what the same step yields with
\* the poison timer at 0.
C9_PoisonSuppressesHpRegen ==
    [][RegenRan /\ flags.poisoned >= 1 =>
          /\ misc'.chp = misc.chp
          /\ misc'.chp_frac = misc.chp_frac
          /\ LET unpoisoned ==
                     UpdateRegeneration([flags EXCEPT !.poisoned = 0], status, misc,
                                        regen_amount')
             IN  /\ misc'.cmana = unpoisoned.cmana
                 /\ misc'.cmana_frac = unpoisoned.cmana_frac]_vars

\* A poisoned player below full HP went through a regeneration step that
\* called regenmana (the mana fraction moved on) and left HP alone.
C9_Witness ==
    /\ last = "playerUpdateRegeneration"
    /\ current_game_turn = 1
    /\ flags.poisoned >= 1
    /\ misc.chp < misc.mhp
    /\ misc.mana = 10
    /\ misc.cmana = 5
    /\ misc.cmana_frac > 0

--------------------------------------------------------------------------
(* Claims about the vitals under heroism and regeneration (SpecVitals). *)

--------------------------------------------------------------------------
(* Claims about the paired timer/status-bit effects (SpecEffects). *)

\* The routine of playDungeon that updates effect e.
Routine(e) ==
    CASE e \in {"hero", "shero"} -> "playerUpdateHeroStatus"
      [] e = "blind" -> "playerUpdateBlindness"
      [] e = "confused" -> "playerUpdateConfusion"
      [] e = "afraid" -> "playerUpdateFearState"
      [] e = "poisoned" -> "playerUpdatePoisonedState"
      [] e \in {"fast", "slow"} -> "playerUpdateSpeed"
      [] e = "invuln" -> "playerUpdateInvulnerability"
      [] e = "blessed" -> "playerUpdateBlessedness"
      [] e = "detect_inv" -> "playerUpdateDetectInvisible"
      [] e = "tim_infra" -> "playerUpdateInfraVision"

Emitted(o, item) == \E i \in 1 .. Len(o) : o[i] = item

\* C1: immediately after a timed effect's update routine returns, the effect's
\* status bit is set if and only if its timer is > 0.
C1_BitIffTimerAfterUpdate ==
    \A e \in Effects :
        last = Routine(e) => (Bit(e) \in status <=> flags[e] > 0)

\* Fear was running when heroism started: the fear update has just cleared
\* PY_FEAR and left the fear timer at 0, with PY_HERO set and its timer > 0.
C1_Witness ==
    /\ last = "playerUpdateFearState"
    /\ lastEvent["afraid"] = "off"
    /\ "PY_FEAR" \notin status
    /\ flags.afraid = 0
    /\ "PY_HERO" \in status
    /\ flags.hero > 0

\* The kinds ("on"/"off") of a sequence of blocks alternate, and the first
\* differs from prev ("none" counts as "off": the first block is an "on").
Alternates(prev, b) ==
    /\ (Len(b) > 0 => b[1][1] # (IF prev = "none" THEN "off" ELSE prev))
    /\ \A i \in 1 .. Len(b) - 1 : b[i][1] # b[i + 1][1]

\* C2: in every step, an effect's activation block runs only if its bit was
\* unset before the step, its deactivation block runs only in the step that
\* brings its timer to exactly 0, activations and deactivations alternate over
\* the whole run starting with an activation, and a tick that finds the bit
\* set and leaves the timer > 0 runs neither.
C2_EdgeTriggered ==
    [][\A e \in Effects :
          LET b == Blocks(out', e)
          IN  /\ (Emitted(b, <<"on", e>>) => Bit(e) \notin status)
              /\ (Emitted(b, <<"off", e>>) => flags[e] > 0 /\ flags'[e] = 0)
              /\ Alternates(lastEvent[e], b)
              /\ (Bit(e) \in status /\ flags'[e] > 0 => b = <<>>)]_vars

\* Invulnerability, raised again while active, has gone through an ordinary
\* tick after its activation: the bit is set, the timer is still > 0 and the
\* update emitted nothing.
C2_Witness ==
    /\ last = "playerUpdateInvulnerability"
    /\ lastEvent["invuln"] = "on"
    /\ "PY_INVULN" \in status
    /\ flags.invuln > 0
    /\ out = <<>>
    /\ raises = 2
    /\ current_game_turn = 3

Bonus(bit, n) == IF bit \in status THEN n ELSE 0

\* C3: activation side effects are undone symmetrically: in every state bth
\* and bthb are base + 12 (PY_HERO) + 24 (PY_SHERO) + 5 (PY_BLESSED), pac and
\* dis_ac are base + 100 (PY_INVULN) + 2 (PY_BLESSED), max HP is base + 10
\* (PY_HERO) + 20 (PY_SHERO), see_infra is base + 1 (PY_TIM_INFRA).
C3_SymmetricUndo ==
    /\ misc.bth = base.bth + Bonus("PY_HERO", 12) + Bonus("PY_SHERO", 24)
                    + Bonus("PY_BLESSED", 5)
    /\ misc.bthb = base.bthb + Bonus("PY_HERO", 12) + Bonus("PY_SHERO", 24)
                    + Bonus("PY_BLESSED", 5)
    /\ misc.pac = base.pac + Bonus("PY_INVULN", 100) + Bonus("PY_BLESSED", 2)
    /\ misc.dis_ac = base.dis_ac + Bonus("PY_INVULN", 100) + Bonus("PY_BLESSED", 2)
    /\ misc.mhp = base.mhp + Bonus("PY_HERO", 10) + Bonus("PY_SHERO", 20)
    /\ flags.see_infra = base.see_infra + Bonus("PY_TIM_INFRA", 1)

\* Heroism has worn off while the blessing it overlapped with is still active:
\* only the blessing's bonuses are left.
C3_Witness ==
    /\ lastEvent["hero"] = "off"
    /\ "PY_HERO" \notin status
    /\ "PY_BLESSED" \in status
    /\ misc.bth = base.bth + 5
    /\ misc.pac = base.pac + 2

\* A call of playerUpdateHeroStatus that finds the hero timer at 1, PY_HERO
\* unset, current HP <= max HP, and super-heroism idle (so that only the
\* heroism half of the routine acts).
HeroRoundTripCall ==
    /\ last' = "playerUpdateHeroStatus"
    /\ flags.hero = 1
    /\ "PY_HERO" \notin status
    /\ misc.chp <= misc.mhp
    /\ flags.shero = 0

HeroRoundTripDone ==
    /\ "PY_HERO" \notin status'
    /\ flags'.hero = 0
    /\ Emitted(out', <<"msg", "The heroism wears off.">>)

\* C4 (as claimed): heroism round trip: from any state with hero timer 1,
\* PY_HERO unset and current HP <= max HP, one call of playerUpdateHeroStatus
\* leaves PY_HERO clear, the timer at 0, the wears-off message emitted, and max
\* HP, current HP, bth and bthb all equal to their values before the call.
\* (Stated for the calls in which super-heroism is idle; it fails there.)
C4_HeroismRoundTrip ==
    [][HeroRoundTripCall =>
          /\ HeroRoundTripDone
          /\ misc'.mhp = misc.mhp
          /\ misc'.chp = misc.chp
          /\ misc'.bth = misc.bth
          /\ misc'.bthb = misc.bthb]_vars

\* C4 (amended): heroism round trip: from any state with hero timer 1, PY_HERO
\* unset, super-heroism idle and current HP <= max HP, one call of
\* playerUpdateHeroStatus leaves PY_HERO clear, the timer at 0, the wears-off
\* message emitted, max HP, bth and bthb equal to their values before the
\* call, and current HP equal to min(old current HP + 10, max HP): the 10
\* points of the activation are kept as far as they fit under max HP.
C4_RoundTripKeepsHealing ==
    [][HeroRoundTripCall =>
          /\ HeroRoundTripDone
          /\ misc'.mhp = misc.mhp
          /\ misc'.bth = misc.bth
          /\ misc'.bthb = misc.bthb
          /\ misc'.chp = (IF misc.chp + 10 > misc.mhp THEN misc.mhp
                          ELSE misc.chp + 10)]_vars

\* Heroism made its round trip in one call from 3 of 20 hit points: the call
\* ran the activation and the deactivation, max HP and bth are the base values
\* again and current HP is 13.
C4_Witness ==
    /\ last = "playerUpdateHeroStatus"
    /\ Blocks(out, "hero") = << <<"on", "hero">>, <<"off", "hero">> >>
    /\ flags.hero = 0
    /\ flags.shero = 0
    /\ status = {}
    /\ misc.mhp = base.mhp
    /\ misc.bth = base.bth
    /\ misc.chp = 13

--------------------------------------------------------------------------
(* Claims about the command interpreter (SpecCount). *)

\* C10: the repeat count accumulated by the count parser never exceeds 99 in
\* any state (a digit typed at the cap rings the bell and leaves the count
\* unchanged), so the count handed to command_count is always in 1..99.
C10_CountNeverExceeds99 ==
    /\ counter <= 99
    /\ command_count <= 99
    /\ (last = "ResolveCommand" /\ counter > 0 /\ lastInputCommand # " "
          => command_count \in 1 .. 99)

\* What the parser does keep: a digit is refused (with the bell) only when the
\* count is already above 99, so the count stays below 1000.
T10_CountBelow1000 ==
    /\ counter <= 999
    /\ command_count <= 999

\* The keys of the count prompt as the count loop sees them: the '#' that
\* opens the prompt of the original scheme stands for the digit 0.
PromptKeys(ks) == [i \in 1 .. Len(ks) |-> IF i = 1 /\ ks[i] = "#" THEN "0" ELSE ks[i]]

IsCountKey(k) == IsBackspace(k) \/ IsDigit(k)

\* The first key of the prompt that ends the digit entry (Len + 1 if none).
Terminator(ks) ==
    CHOOSE t \in 1 .. Len(ks) + 1 :
       /\ \A i \in 1 .. t - 1 : IsCountKey(ks[i])
       /\ t <= Len(ks) => ~IsCountKey(ks[t])

RECURSIVE BaseTen(_)
\* The base-10 value of digit keys, each backspace dividing it by 10.
BaseTen(ks) ==
    IF ks = <<>> THEN 0
    ELSE LET n == BaseTen(SubSeq(ks, 1, Len(ks) - 1))
             k == ks[Len(ks)]
         IN  IF IsBackspace(k) THEN n \div 10 ELSE n * 10 + DigitValue(k)

RECURSIVE CappedBaseTen(_)
\* The same value, where a digit typed at a value above 99 is ignored.
CappedBaseTen(ks) ==
    IF ks = <<>> THEN 0
    ELSE LET n == CappedBaseTen(SubSeq(ks, 1, Len(ks) - 1))
             k == ks[Len(ks)]
         IN  IF IsBackspace(k) THEN n \div 10
             ELSE IF n > 99 THEN n
             ELSE n * 10 + DigitValue(k)

\* What follows the digits: a count of 0 becomes 99; after a space the key
\* read next is the command, any other key that ends the entry is the command.
CountEnding(value(_)) ==
    last = "CountEnd" =>
       LET ks == PromptKeys(typed)
           t  == Terminator(ks)
           v  == value(SubSeq(ks, 1, t - 1))
       IN  /\ t <= Len(ks)
           /\ counter = (IF v = 0 THEN 99 ELSE v)
           /\ IF ks[t] = " "
              THEN Len(ks) = t + 1 /\ lastInputCommand = ks[t + 1]
              ELSE Len(ks) = t /\ lastInputCommand = ks[t]

C11_WitnessSpace ==
    /\ last = "CountEnd"
    /\ typed = <<"#", " ", "1">>
    /\ counter = 99
    /\ lastInputCommand = "1"

\* Entering the command printed a message: a key that is neither a letter nor
\* ESCAPE followed the control-escape key.
Messaged ==
    \E i \in 1 .. Len(typed) - 1 :
       typed[i] = "^" /\ typed[i + 1] # "ESCAPE" /\ ~IsLetter(typed[i + 1])

\* What an accepted count is handed over as, what a pending count does at the
\* top of the command loop, and what the executed command leaves of it.
CountedRepeat(commands) ==
    /\ pc = "ResolveCommand" /\ counter \in 1 .. 99 /\ ~player_free_turn'
          /\ lastInputCommand' \in commands
          => command_count' = counter
    /\ pc = "AcceptCommand" /\ running_counter = 0 /\ command_count > 0
          /\ lastInputCommand \in commands
          => /\ pc' = "DispatchCommand"
             /\ UNCHANGED <<keys_read, typed, lastInputCommand, command_count>>
    /\ pc = "DispatchCommand" /\ command_count > 0 /\ ~Messaged
          /\ lastInputCommand \in commands
          => /\ command_count' = command_count - 1
             /\ ~player_free_turn'
             /\ pc' = "command"
    /\ pc \in {"command", "turn"} => command_count' = command_count

TurnTaking ==
    {c \in CountAccepted :
        /\ ~do_command_free(c)
        /\ ~IsDirKey(RunKeys, c)
        /\ c \notin {".", "-"}}

InvalidCount ==
    /\ pc = "ResolveCommand"
    /\ counter > 0
    /\ \A g \in GetDirResults :
          (IF use_roguelike_keys THEN lastInputCommand
           ELSE original_commands(lastInputCommand, g)) \notin CountAccepted

\* The command was refused for its count and the no-op is about to run.
RefusedCount ==
    /\ pc = "DispatchCommand"
    /\ last = "ResolveCommand"
    /\ Emitted(out, <<"msg", "Invalid command with a count.">>)

\* What happens to a command refused for its count; `after` is where the
\* interpreter goes on after the no-op.
InvalidCountRefused(after) ==
    /\ InvalidCount
          => /\ lastInputCommand' = " "
             /\ Emitted(out', <<"msg", "Invalid command with a count.">>)
             /\ player_free_turn'
             /\ command_count' = 0
             /\ pc' = "DispatchCommand"
    /\ RefusedCount
          => /\ out' = << <<"do_command", " ">>, <<"nothing">> >>
             /\ player_free_turn'
             /\ command_count' = 0
             /\ current_game_turn' = current_game_turn
             /\ pc' = after

\* C13: a command that is not count-eligible, entered with a count, never
\* runs its handler: it is replaced by the no-op, "Invalid command with a
\* count." is printed, the turn is free, command_count is 0 afterwards, and
\* the next command is read before the turn counter advances or the monsters
\* move.
C13_InvalidCountIsFreeNoOp == [][InvalidCountRefused("AcceptCommand")]_vars

\* C13 as the code has it: the next command is read unless the input has
\* ended; then the turn goes on to its end.
C13_InvalidCountIsFreeNoOpUnlessEof ==
    [][InvalidCountRefused(IF eof_flag = 0 THEN "AcceptCommand" ELSE "command")]_vars

\* The inventory key was typed with the count 2: the no-op ran, the turn is
\* free, no count is pending and the next command is about to be read in the
\* same turn.
C13_Witness ==
    /\ typed = <<"2", "i">>
    /\ last = "DispatchCommand"
    /\ lastInputCommand = " "
    /\ player_free_turn
    /\ command_count = 0
    /\ current_game_turn = 1
    /\ pc = "AcceptCommand"

--------------------------------------------------------------------------
(* Claims about the key tables (SpecTables). *)

\* The answer of the table that was applied last.
TableResult == out[Len(out)][2]

\* C14: valid_countcommand rejects Q, ^X, ? and v, accepts the eight move
\* keys, the eight run keys, the eight tunnel codes, 's', '.' and 'R', and
\* rejects every code that is in neither of its two groups.
C14_CountEligibility ==
    last = "valid_countcommand" =>
       /\ lastInputCommand \in {"Q", "^X", "?", "v"} => ~TableResult
       /\ lastInputCommand \in
             {"b", "j", "n", "h", "l", "y", "k", "u",
              "B", "J", "N", "H", "L", "Y", "K", "U",
              "^B", "^J", "^N", "^H", "^L", "^Y", "^K", "^U",
              "s", ".", "R"} => TableResult
       /\ lastInputCommand \notin CountRefused \cup CountAccepted => ~TableResult

\* A code of neither group, ^M, was rejected.
C14_Witness ==
    /\ last = "valid_countcommand"
    /\ lastInputCommand = "^M"
    /\ lastInputCommand \notin CountRefused \cup CountAccepted
    /\ ~TableResult

\* C15: a count is permitted on most inventory actions: of d, e, i, T, w, X
\* more than half are accepted by valid_countcommand.
C15_MostInventoryActionsCountable ==
    last = "valid_countcommand" /\ lastInputCommand \in {"d", "e", "i", "T", "w", "X"}
       => 2 * Cardinality({c \in {"d", "e", "i", "T", "w", "X"} :
                              valid_countcommand(c)}) > 6

\* C15 as the code has it: none of d, e, i, T, w, X is accepted.
C15_NoInventoryActionCountable ==
    last = "valid_countcommand" /\ lastInputCommand \in {"d", "e", "i", "T", "w", "X"}
       => ~TableResult

\* The wear/wield code was rejected.
C15_Witness ==
    /\ last = "valid_countcommand"
    /\ lastInputCommand = "w"
    /\ ~TableResult

\* C16: original_commands is total on the key codes, every key it has no
\* case for yields '~', and for every key other than '.' and 'T' the result
\* depends on the key alone.
C16_OriginalCommandsTotal ==
    last = "original_commands" =>
       /\ TableResult \in Codes
       /\ lastInputCommand \notin OriginalCases => TableResult = "~"
       /\ lastInputCommand \notin {".", "T"} =>
             \A g \in GetDirResults :
                original_commands(lastInputCommand, g) = TableResult

\* ESCAPE, which has no case, came out as '~'.
C16_Witness ==
    /\ last = "original_commands"
    /\ lastInputCommand = "ESCAPE"
    /\ TableResult = "~"

--------------------------------------------------------------------------
(* Claims about the control escape, the run and the turn loop (SpecCount). *)

\* The key read last for the command being entered.
LastTyped(ks) == ks[Len(ks)]

\* The control escape was left without a control code: the key after '^' was
\* not a letter.
EscapeAborted ==
    /\ Len(typed) >= 2
    /\ typed[Len(typed) - 1] = "^"
    /\ ~IsLetter(LastTyped(typed))

\* What the key after '^' gives; `silent` are the keys that abort without the
\* message.
ControlEscapeGives(silent) ==
    /\ pc = "ControlEscape" /\ lastInputCommand = "^"
          => LET k == LastTyped(typed')
                 told == Emitted(out', <<"msg", "Type ^ <letter> for a control char">>)
             IN  /\ keys_read' = keys_read + 1
                 /\ \A i \in 1 .. 26 :
                       k \in {UpperLetters[i], LowerLetters[i]}
                          => lastInputCommand' = ControlKeys[i] /\ ~told
                 /\ ~IsLetter(k)
                       => lastInputCommand' = " " /\ (told <=> k \notin silent)
    /\ pc = "DispatchCommand" /\ EscapeAborted
          => /\ player_free_turn'
             /\ out' = << <<"do_command", " ">>, <<"nothing">> >>

\* C17: after '^' a letter, capital or small, becomes its control code 1..26;
\* every other key, ESCAPE included, aborts with the message "Type ^ <letter>
\* for a control char" and yields the no-op, dispatched as a free turn.
C17_ControlEscape == [][ControlEscapeGives({})]_vars

\* C17 as the code has it: ESCAPE aborts without the message.
C17_ControlEscapeSilentOnEscape == [][ControlEscapeGives({"ESCAPE"})]_vars

\* '^' and then 'h' gave the control code of H.
C17_Witness ==
    /\ last = "ControlEscape"
    /\ typed = <<"^", "h">>
    /\ lastInputCommand = "^H"

\* '^' and then ESCAPE gave the no-op without a message.
C17_WitnessEscape ==
    /\ last = "ControlEscape"
    /\ typed = <<"^", "ESCAPE">>
    /\ lastInputCommand = " "
    /\ out = <<>>

\* C18: a run is bounded by its counter: each turn of a run advances it
\* without reading a key and decrements the find counter by one, and the run
\* is ended on the turn the counter reaches zero, so that a run started with
\* the count N (which leaves N - 1 in the counter) takes at most N steps.
C18_RunBoundedByCount ==
    [][pc = "AcceptCommand" /\ running_counter # 0 /\ find_count >= 0
          => /\ keys_read' = keys_read
             /\ Emitted(out', <<"find_run">>)
             /\ find_count' = find_count - 1
             /\ (find_count' = 0 => running_counter' = 0)]_vars

\* What the run does keep: it goes on without reading a key, and the counter
\* it was started with is left as it is.
T18_RunReadsNoKey ==
    [][pc = "AcceptCommand" /\ running_counter # 0
          => /\ keys_read' = keys_read
             /\ Emitted(out', <<"find_run">>)
             /\ find_count' = find_count
             /\ pc' = "command"]_vars

\* A run started with the count 2 is still on after its third step.
T18_Witness ==
    /\ typed = <<"2", "H">>
    /\ current_game_turn = 3
    /\ last = "AcceptCommand"
    /\ find_count = 1
    /\ running_counter # 0

--------------------------------------------------------------------------
(* Claims about the move without pickup (SpecTables). *)

\* do_command was applied to the code of the state: what get_dir answered,
\* the code dispatched, do_pickup, and the handler called.
DoCommandApplied == pc = "table" /\ last' = "do_command"

\* What do_command makes of '-'; the count is as before the directional
\* prompt for the answers of get_dir in `restoring`.
MoveWithoutPickupGives(restoring) ==
    DoCommandApplied =>
       LET g == out'[1][2]
           com_val == out'[2][2]
           do_pickup == out'[2][3]
           handler == out'[3]
       IN  /\ ~do_pickup <=> lastInputCommand = "-"
           /\ lastInputCommand = "-" =>
                 /\ g \in restoring => command_count' = command_count
                 /\ g.ok /\ g.dir # 5 =>
                       /\ com_val = <<"b", "j", "n", "h", "", "l", "y", "k", "u">>[g.dir]
                       /\ handler = <<"move_char", g.dir, FALSE>>
                       /\ Handler(com_val, TRUE) = <<"move_char", g.dir, TRUE>>

\* C19: for '-', command_count after the directional prompt equals its value
\* before it, whatever the prompt does; a resolved direction in 1..4, 6..9
\* dispatches exactly the move of the corresponding letter; and do_pickup is
\* false if and only if the command was '-'.
C19_MoveWithoutPickup == [][MoveWithoutPickupGives(GetDirResults)]_vars

\* C19 as the code has it: the count is restored where the prompt gave a
\* direction; where it gave none, the command becomes the no-op and the count
\* is left as the prompt left it.
C19_MoveWithoutPickupRestoresOnSuccess ==
    [][/\ MoveWithoutPickupGives({g \in GetDirResults : g.ok})
       /\ DoCommandApplied /\ lastInputCommand = "-" /\ ~out'[1][2].ok
             => /\ out'[2][2] = " "
                /\ out'[3] = <<"nothing">>
                /\ command_count' = (IF out'[1][2].cleared THEN 0 ELSE command_count)]_vars

\* '-' with the count 3: the prompt cleared the count and gave the direction
\* 7; the move up and left ran without pickup and the count is 3 again.
C19_Witness ==
    /\ last = "do_command"
    /\ lastInputCommand = "-"
    /\ out[1][2] = [ok |-> TRUE, dir |-> 7, cleared |-> TRUE]
    /\ out[3] = <<"move_char", 7, FALSE>>
    /\ command_count = 3

C20_WitnessLevel ==
    /\ last = "command"
    /\ pc = "done"
    /\ eof_flag = 0
    /\ generate_new_level
    /\ ~character_is_dead

--------------------------------------------------------------------------
(* Claims about the turn loop of playDungeon (SpecCount). *)

--------------------------------------------------------------------------
(* Claims about the order of a turn (SpecTurn). *)

\* The steps of a turn in the order claimed, each by the name its action
\* leaves in `last`: the turn counter, store restocking, monster spawn, light
\* decay, heroism, food consumption, regeneration, blindness, confusion,
\* fear, poison, speed, resting, keypress poll, hallucination, paralysis,
\* protection, invulnerability, blessedness, heat and cold resistance,
\* detect-invisible, infravision, word of recall, random teleport, status
\* redraw, enchantment detection, monster compaction, command acceptance,
\* and the end of the turn (queued teleport, then monster movement).
ClaimedOrder ==
    <<"turn", "store_maint", "alloc_monster", "playerUpdateLightStatus",
      "playerUpdateHeroStatus", "playerFoodConsumption",
      "playerUpdateRegeneration", "playerUpdateBlindness",
      "playerUpdateConfusion", "playerUpdateFearState",
      "playerUpdatePoisonedState", "playerUpdateSpeed",
      "playerUpdateRestingState", "checkForNonBlockingKeyPress",
      "playerUpdateHallucination", "playerUpdateParalysis",
      "playerUpdateEvilProtection", "playerUpdateInvulnerability",
      "playerUpdateBlessedness", "playerUpdateHeatResistance",
      "playerUpdateColdResistance", "playerUpdateDetectInvisible",
      "playerUpdateInfraVision", "playerUpdateWordOfRecall", "teleport",
      "playerUpdateStatusFlags", "playerDetectEnchantment",
      "compact_monsters", "executeInputCommands", "command">>

Position(step) == CHOOSE i \in 1 .. Len(ClaimedOrder) : ClaimedOrder[i] = step

IsClaimedStep(step) == \E i \in 1 .. Len(ClaimedOrder) : ClaimedOrder[i] = step

\* The steps of the interpreter, which are the command the acceptance step
\* accepted.
CommandSteps ==
    {"AcceptCommand", "CountKey", "CountEnd", "ControlEscape", "ResolveCommand",
     "DispatchCommand"}

\* The step of the claimed order that ran last: the strength and study
\* checks, which the order does not name, come after the random teleport,
\* and before the first turn the loop is where the end of a turn leaves it.
LastClaimedStep ==
    IF last \in CommandSteps THEN "executeInputCommands"
    ELSE IF last = "check_strength" THEN "teleport"
    ELSE IF last = "init" THEN "command"
    ELSE last

\* The position in a step's output of the first call of `name`, 0 for none.
FirstCall(o, name) ==
    IF \E i \in 1 .. Len(o) : o[i][1] = name
    THEN CHOOSE i \in 1 .. Len(o) :
            o[i][1] = name /\ \A j \in 1 .. i - 1 : o[j][1] # name
    ELSE 0

\* C22: the heroism update runs before every damaging step (starvation,
\* poison) of a turn, and the steps of a turn run in the fixed order of
\* ClaimedOrder: each step of the order runs right after the one before it
\* (the first after the last), a command is read only after the acceptance
\* step, damage is dealt only by the food and the poison step, which come
\* after the heroism update, and at the end of the turn the queued teleport
\* comes before the monsters move.
C22_FixedTurnOrder ==
    [][/\ IsClaimedStep(last') =>
             Position(last') = (Position(LastClaimedStep) % Len(ClaimedOrder)) + 1
       /\ last' \in CommandSteps => LastClaimedStep = "executeInputCommands"
       /\ FirstCall(out', "take_hit") # 0 =>
             /\ last' \in {"playerFoodConsumption", "playerUpdatePoisonedState"}
             /\ Position("playerUpdateHeroStatus") < Position(last')
       /\ last' = "command" /\ FirstCall(out', "teleport") # 0
             /\ FirstCall(out', "updateMonsters") # 0 =>
             FirstCall(out', "teleport") < FirstCall(out', "updateMonsters")
      ]_vars

\* The poison has just taken 4 hit points from a character of 3 who lives,
\* because the heroism update of the same turn gave him 10 before.
C22_Witness ==
    /\ last = "playerUpdatePoisonedState"
    /\ Emitted(out, <<"take_hit", 4>>)
    /\ "PY_HERO" \in status
    /\ misc.chp = 9
    /\ ~character_is_dead

\* A turn ended with the queued teleport and the move of the monsters, after
\* a command was read.
C22_WitnessEnd ==
    /\ last = "command"
    /\ typed # <<>>
    /\ FirstCall(out, "teleport") = 1
    /\ FirstCall(out, "updateMonsters") = 2

--------------------------------------------------------------------------
(* Claims about the acceptance of commands (SpecTurn). *)

\* The player can act: not paralysed, not resting, not dead.
CanAct(f, dead) == f.paralysis < 1 /\ f.rest = 0 /\ ~dead

\* C23: a command is read or executed in a turn if and only if, at the
\* command-acceptance step of the turn, the paralysis counter is < 1, the
\* rest counter is 0 and the character is not dead: the acceptance step
\* hands over to the interpreter exactly then, and otherwise flushes the
\* output and hands over to the end of the turn; the interpreter runs only
\* after an acceptance step that found the player able to act, and only the
\* interpreter reads a key or calls do_command.
C23_CommandIffAbleToAct ==
    [][/\ last' = "executeInputCommands" =>
             /\ (pc' = "AcceptCommand") = CanAct(flags, character_is_dead)
             /\ (pc' # "AcceptCommand") =
                   (pc' = "command" /\ Emitted(out', <<"putQIO">>))
             /\ keys_read' = keys_read
             /\ flags' = flags /\ character_is_dead' = character_is_dead
       /\ last' \in CommandSteps =>
             /\ last \in CommandSteps \cup {"executeInputCommands"}
             /\ last = "executeInputCommands" => CanAct(flags, character_is_dead)
       /\ last = "executeInputCommands" /\ ~CanAct(flags, character_is_dead) =>
             last' = "command"
       /\ (keys_read' # keys_read \/ FirstCall(out', "do_command") # 0
             \/ FirstCall(out', "find_run") # 0) =>
             last' \in CommandSteps
      ]_vars

\* A paralysed player's turn: the acceptance step flushed the output, and no
\* key was read.
C23_Witness ==
    /\ last = "executeInputCommands"
    /\ pc = "command"
    /\ flags.paralysis > 0
    /\ Emitted(out, <<"putQIO">>)
    /\ keys_read = MaxKeys - MaxTurnKeys

\* C24: a free-turn command does not advance the simulation: after a
\* command that left the free-turn flag set, with generate_new_level and
\* eof_flag clear, the next step is the top of the command loop again, with
\* no increment of the turn counter, no step of the status effects and no
\* move of the monsters; after any other command the turn goes on to its
\* end; and every free-turn command leaves command_count at 0.
C24_FreeTurnKeepsReading ==
    [][/\ last = "DispatchCommand" /\ player_free_turn /\ ~generate_new_level
             /\ eof_flag = 0 =>
             /\ last' = "AcceptCommand"
             /\ current_game_turn' = current_game_turn
             /\ FirstCall(out', "updateMonsters") = 0
       /\ last = "DispatchCommand"
             /\ ~(player_free_turn /\ ~generate_new_level /\ eof_flag = 0) =>
             last' = "command"
       /\ last' = "DispatchCommand" /\ player_free_turn' => command_count' = 0
       /\ last \in CommandSteps /\ last' \notin CommandSteps => last' = "command"
      ]_vars

\* A free-turn command that was given a count has run: the count is gone and
\* the command loop is at its top again, in the same turn.
C24_Witness ==
    /\ last = "DispatchCommand"
    /\ pc = "AcceptCommand"
    /\ player_free_turn
    /\ counter > 0
    /\ lastInputCommand # " "
    /\ command_count = 0
    /\ current_game_turn = 1

--------------------------------------------------------------------------
(* Claims about the wizard's commands (SpecTables). *)

\* The codes of the wizard's commands.
WizardKeys ==
    {"^A", "^E", "^F", "^G", "^D", "^O", "\\", "^I", "*", ":", "^T", "+", "&", "@"}

\* The calls the wizard's handlers make.
WizardCalls ==
    {"cure_all", "change_character", "mass_genocide", "random_object",
     "outputRandomLevelObjectsToFile", "displayTextHelpFile", "ident_spell",
     "wizard_light", "map_area", "teleport", "prt_experience",
     "summon_monster", "wizard_create", "eraseLine"}

\* C25: the wizard's commands are gated behind wizard_mode. While the flag is
\* false, do_command runs no wizard handler for any code, and for a wizard
\* code it changes neither the depth nor the experience nor
\* generate_new_level (nor anything else of the player): it only prints the
\* help hint, and the turn is free. With the flag set a wizard code is a free
\* turn too.
C25_WizardCommandsGated ==
    [][DoCommandApplied =>
          /\ ~globals.wizard_mode =>
                \A i \in 1 .. Len(out') : out'[i][1] \notin WizardCalls
          /\ ~globals.wizard_mode /\ lastInputCommand \in WizardKeys =>
                /\ globals' = globals
                /\ misc' = misc
                /\ flags' = flags
                /\ generate_new_level' = generate_new_level
                /\ Len(out') = 4
                /\ out'[4] = <<"prt", "Type '?' for help.">>
                /\ player_free_turn'
          /\ globals.wizard_mode /\ lastInputCommand \in WizardKeys =>
                /\ player_free_turn'
                /\ out'[3] = <<"default", lastInputCommand>>
      ]_vars

\* Without the wizard mode, ^D with a count of 3 has only printed the hint:
\* the level is the one it was.
C25_Witness ==
    /\ last = "do_command"
    /\ lastInputCommand = "^D"
    /\ ~globals.wizard_mode
    /\ command_count = 3
    /\ out[4] = <<"prt", "Type '?' for help.">>
    /\ globals.current_dungeon_level = 1
    /\ ~generate_new_level
    /\ player_free_turn

\* In the wizard mode, ^D with a count of 3 has set the level to 3, in a free
\* turn.
C25_WitnessWizard ==
    /\ last = "do_command"
    /\ lastInputCommand = "^D"
    /\ globals.wizard_mode
    /\ globals.current_dungeon_level = 3
    /\ generate_new_level
    /\ player_free_turn

--------------------------------------------------------------------------
(* Claims about the timers of a turn (SpecTimers). *)

\* The poison schedule as claimed: the damage for a constitution adjustment
\* on a turn.
ClaimedPoisonDamage(adj, turn) ==
    IF adj = -4 THEN 4
    ELSE IF adj = -3 \/ adj = -2 THEN 3
    ELSE IF adj = -1 THEN 2
    ELSE IF adj = 0 THEN 1
    ELSE IF adj <= 3 THEN (IF turn % 2 = 0 THEN 1 ELSE 0)
    ELSE IF adj <= 5 THEN (IF turn % 3 = 0 THEN 1 ELSE 0)
    ELSE (IF turn % 4 = 0 THEN 1 ELSE 0)

\* C26: on each poison tick that leaves the poison timer > 0, the damage
\* passed to take_hit is the one of the schedule: 4 for the constitution
\* adjustment -4; 3 for -3 and -2; 2 for -1; 1 for 0; for 1..3, 1 when
\* turn % 2 = 0 else 0; for 4..5, 1 when turn % 3 = 0 else 0; for 6, 1 when
\* turn % 4 = 0 else 0.
C26_PoisonSchedule ==
    [][/\ last' = "playerUpdatePoisonedState"
       /\ flags.poisoned > 0
       /\ flags'.poisoned > 0
       /\ con_adj \in -4 .. 6
       => /\ FirstCall(out', "take_hit") # 0
          /\ \A i \in 1 .. Len(out') :
                out'[i][1] = "take_hit" =>
                   out'[i] = <<"take_hit",
                               ClaimedPoisonDamage(con_adj, current_game_turn)>>
      ]_vars

\* The best constitution on a fourth turn: the poison has taken one hit
\* point, the only one of the four turns.
C26_Witness ==
    /\ last = "playerUpdatePoisonedState"
    /\ con_adj = 6
    /\ current_game_turn = 4
    /\ flags.poisoned = 2
    /\ Emitted(out, <<"take_hit", 1>>)
    /\ misc.chp = 19

\* C27: with the food counter at 0 and speed 0 at the start of a turn,
\* playerFoodConsumption inflicts exactly one hit point of starvation damage
\* in that turn, for every positive digestion rate.
C27_StarvationTakesOne ==
    [][/\ last' = "playerFoodConsumption"
       /\ flags.food = 0
       /\ flags.speed = 0
       /\ flags.food_digested > 0
       => Emitted(out', <<"take_hit", 1>>)
      ]_vars

\* C27 as the code has it: the starvation damage of a turn is passed to
\* take_hit once, in every turn whose digestion leaves the food counter below
\* 0 and in no other, and it is a sixteenth (rounded down) of what the
\* counter is below 0 after the digestion; from a counter of 0 with speed 0
\* that is a sixteenth of the digestion rate, which is 0 for a rate below 16.
C27_StarvationTakesSixteenth ==
    [][last' = "playerFoodConsumption" =>
          /\ flags'.food < 0 =>
                /\ FirstCall(out', "take_hit") # 0
                /\ \A i \in 1 .. Len(out') :
                      out'[i][1] = "take_hit" =>
                         out'[i] = <<"take_hit", (0 - flags'.food) \div 16>>
          /\ flags'.food >= 0 => FirstCall(out', "take_hit") = 0
          /\ flags.food = 0 /\ flags.speed = 0 /\ flags.food_digested > 0 =>
                /\ flags'.food = 0 - flags.food_digested
                /\ Emitted(out', <<"take_hit", flags.food_digested \div 16>>)
      ]_vars

\* The food counter was 0 and the digestion took 2: take_hit was called with
\* 0, and the hit points are what they were.
C27_Witness ==
    /\ last = "playerFoodConsumption"
    /\ current_game_turn = 1
    /\ flags.food = -2
    /\ flags.food_digested = 2
    /\ flags.speed = 0
    /\ Emitted(out, <<"take_hit", 0>>)
    /\ misc.chp = 20

\* The third turn of a digestion of 20 from a counter of 0: the damage is 3.
C27_WitnessGrowing ==
    /\ last = "playerFoodConsumption"
    /\ current_game_turn = 3
    /\ flags.food = -60
    /\ flags.speed = 0
    /\ Emitted(out, <<"take_hit", 3>>)

\* The vitals are full: current hit points and mana equal their maxima.
VitalsFull(m) == m.chp = m.mhp /\ m.cmana = m.mana

\* C28: in the resting update a positive rest counter decreases by exactly 1
\* and rest_off is called exactly when it reaches 0; a negative counter (rest
\* until full) increases by exactly 1 and rest_off is called as soon as the
\* vitals are full or the counter reaches 0; the resting update calls
\* rest_off in no other case, and with a counter of 0 it does nothing.
C28_Resting ==
    [][last' = "playerUpdateRestingState" =>
          /\ flags.rest > 1 =>
                flags'.rest = flags.rest - 1 /\ FirstCall(out', "rest_off") = 0
          /\ flags.rest = 1 =>
                flags'.rest = 0 /\ out' = << <<"rest_off">> >>
          /\ flags.rest < 0 /\ (VitalsFull(misc) \/ flags.rest = -1) =>
                flags'.rest = 0 /\ out' = << <<"rest_off">> >>
          /\ flags.rest < -1 /\ ~VitalsFull(misc) =>
                flags'.rest = flags.rest + 1 /\ FirstCall(out', "rest_off") = 0
          /\ flags.rest = 0 => flags' = flags /\ out' = <<>>
          /\ misc' = misc
      ]_vars

\* A rest until the vitals are full has ended in the first turn, the vitals
\* being full.
C28_Witness ==
    /\ last = "playerUpdateRestingState"
    /\ current_game_turn = 1
    /\ out = << <<"rest_off">> >>
    /\ flags.rest = 0
    /\ "PY_REST" \notin status
    /\ VitalsFull(misc)

\* A rest until the vitals are full goes on: the counter has come one nearer
\* to 0, the wounds are not healed.
C28_WitnessGoesOn ==
    /\ last = "playerUpdateRestingState"
    /\ flags.rest = -1
    /\ "PY_REST" \in status
    /\ ~VitalsFull(misc)
    /\ out = <<>>

\* C29: fear is suppressed while heroism or super-heroism is active: where
\* hero + shero > 0 at the fear update, the update does not set PY_FEAR, and
\* a fear that is active (its bit set, its timer above 0) ends in that
\* update, however large its timer was: the timer is 0 after it, the bit is
\* cleared and "You feel bolder now." is emitted.
C29_HeroismSuppressesFear ==
    [][/\ last' = "playerUpdateFearState"
       /\ flags.hero + flags.shero > 0
       => /\ "PY_FEAR" \notin status =>
                /\ "PY_FEAR" \notin status'
                /\ Blocks(out', "afraid") = <<>>
          /\ "PY_FEAR" \in status /\ flags.afraid > 0 =>
                /\ flags'.afraid = 0
                /\ "PY_FEAR" \notin status'
                /\ Emitted(out', <<"msg", "You feel bolder now.">>)
      ]_vars

\* A hero's fear has ended in the first turn with its message.
C29_Witness ==
    /\ last = "playerUpdateFearState"
    /\ current_game_turn = 1
    /\ flags.hero + flags.shero > 0
    /\ "PY_HERO" \in status \/ "PY_SHERO" \in status
    /\ "PY_FEAR" \notin status
    /\ flags.afraid = 0
    /\ Emitted(out, <<"msg", "You feel bolder now.">>)

\* A hero was frightened: the fear has not shown, and nothing was emitted.
C29_WitnessNew ==
    /\ last = "playerUpdateFearState"
    /\ current_game_turn = 1
    /\ flags.hero + flags.shero > 0
    /\ "PY_FEAR" \notin status
    /\ flags.afraid = -1
    /\ out = <<>>

\* C30: the word of recall is a delayed action: a timer above 1 only
\* decrements; in the update where the timer is 1 it becomes 0,
\* generate_new_level is set, and the depth becomes 0 if it is above 0,
\* otherwise the deepest depth visited if that is not 0 (and it stays 0 if it
\* is); a timer of 0 does nothing.
C30_WordOfRecall ==
    [][last' = "playerUpdateWordOfRecall" =>
          /\ flags.word_recall > 1 =>
                /\ flags' = [flags EXCEPT !.word_recall = flags.word_recall - 1]
                /\ globals' = globals
                /\ generate_new_level' = generate_new_level
                /\ status' = status /\ misc' = misc /\ out' = <<>>
          /\ flags.word_recall = 1 =>
                /\ flags'.word_recall = 0
                /\ generate_new_level'
                /\ globals'.current_dungeon_level =
                      IF globals.current_dungeon_level > 0 THEN 0
                      ELSE IF misc.max_dlv # 0 THEN misc.max_dlv
                      ELSE 0
          /\ flags.word_recall < 1 =>
                /\ flags' = flags
                /\ globals' = globals
                /\ generate_new_level' = generate_new_level
                /\ out' = <<>>
      ]_vars

\* The word of recall has taken the player from the town to the fifth level,
\* the deepest visited.
C30_Witness ==
    /\ last = "playerUpdateWordOfRecall"
    /\ flags.word_recall = 0
    /\ generate_new_level
    /\ globals.current_dungeon_level = 5
    /\ misc.max_dlv = 5
    /\ Emitted(out, <<"msg", "You feel yourself yanked downwards!">>)

\* The word of recall has left a player in the town who never was in the
\* dungeon, and a new level is generated all the same.
C30_WitnessTown ==
    /\ last = "playerUpdateWordOfRecall"
    /\ flags.word_recall = 0
    /\ generate_new_level
    /\ globals.current_dungeon_level = 0
    /\ misc.max_dlv = 0
    /\ out = <<>>

--------------------------------------------------------------------------
(* Claims about the terminal (SpecInput, SpecEof). *)

\* The step just taken was a call of inkey.
InkeyCalled == keys_read' = keys_read + 1

\* How many times the step emitted the item.
Times(o, item) == Cardinality({i \in 1 .. Len(o) : o[i] = item})

\* C31: inkey never returns ^R. Of the keys a call of inkey reads, every one
\* but the last is a ^R, each of which is answered by a redraw of the screen
\* and a reset of the terminal; the last is not a ^R, and the value returned
\* is that key, or ESCAPE if it is the end of the input.
C31_InkeyNeverReturnsCtrlR ==
    [][InkeyCalled /\ pc' # "exited" =>
          LET n == Len(typed')
          IN  /\ n >= 1
              /\ lastInputCommand' # CTRL_R
              /\ \A i \in 1 .. n - 1 : typed'[i] = CTRL_R
              /\ typed'[n] # CTRL_R
              /\ lastInputCommand' = (IF typed'[n] = "EOF" THEN "ESCAPE"
                                      ELSE typed'[n])
              /\ Times(out', <<"wrefresh", "curscr">>) = n - 1
              /\ Times(out', <<"moriaterm">>) = n - 1]_vars

\* A call read a ^R and then the key it returned.
C31_Witness ==
    /\ last = "get_com"
    /\ typed = <<CTRL_R, "y">>
    /\ lastInputCommand = "y"
    /\ Emitted(out, <<"moriaterm">>)

\* A call read a ^R and then the end of the input, and returned ESCAPE.
C31_WitnessEof ==
    /\ last = "msg_print"
    /\ typed = <<CTRL_R, "EOF">>
    /\ lastInputCommand = "ESCAPE"
    /\ pc = "idle"

\* The call of inkey just made saw the end of the input.
SawEndOfInput == InkeyCalled /\ typed'[Len(typed')] = "EOF"

\* The step called save_char.
SaveAttempted(o) == Emitted(o, <<"save_char", TRUE>>) \/ Emitted(o, <<"save_char", FALSE>>)

\* C32: the end of the input escalates. With a generated, unsaved character
\* each end of the input seen by inkey adds one to eof_flag and raises
\* disturb(1, 0); while eof_flag is at most 100 the call returns ESCAPE and
\* nothing is saved; the end that takes eof_flag above 100 sets panic_save,
\* calls save_char and leaves the game. With no character generated, or with
\* the character saved, an end of the input leaves the game at once, with
\* no panic save.
C32_EndOfInputEscalates ==
    [][SawEndOfInput =>
          /\ eof_flag' = eof_flag + 1
          /\ IF globals.character_generated /\ ~globals.character_saved
             THEN /\ Times(out', <<"disturb", 1, 0>>) = 1
                  /\ command_count' = 0 /\ flags'.rest = 0
                  /\ running_counter' = 0 /\ "PY_SEARCH" \notin status'
                  /\ IF eof_flag' <= 100
                     THEN /\ lastInputCommand' = "ESCAPE"
                          /\ pc' # "exited"
                          /\ ~globals'.panic_save
                          /\ ~SaveAttempted(out')
                          /\ ~Emitted(out', <<"exit_game">>)
                     ELSE /\ globals'.panic_save
                          /\ SaveAttempted(out')
                          /\ character_is_dead' = Emitted(out', <<"save_char", FALSE>>)
                          /\ Emitted(out', <<"exit_game">>)
                          /\ pc' = "exited"
             ELSE /\ pc' = "exited"
                  /\ Emitted(out', <<"exit_game">>)
                  /\ ~globals'.panic_save
                  /\ ~SaveAttempted(out')
                  /\ Times(out', <<"disturb", 1, 0>>) = 0]_vars

\* The 101st end of the input left the game with a panic save that failed.
C32_Witness ==
    /\ pc = "exited"
    /\ eof_flag = 101
    /\ globals.panic_save
    /\ Emitted(out, <<"save_char", FALSE>>)
    /\ character_is_dead

\* The 100th end of the input was answered by ESCAPE.
C32_WitnessHundred ==
    /\ eof_flag = 100
    /\ keys_read > 0
    /\ lastInputCommand = "ESCAPE"
    /\ typed = <<"EOF">>
    /\ pc = "idle"

\* The first end of the input left the game of a saved character.
C32_WitnessSaved ==
    /\ pc = "exited"
    /\ eof_flag = 1
    /\ globals.character_saved
    /\ ~globals.panic_save

\* The routines that wait for a key in a loop of their own.
WaitLoops == {"msg_print", "get_check", "get_string"}

\* C33: on a terminal whose input has ended the game always terminates.
\* The game is left after finitely many steps; inkey is never called more
\* than 101 times; a waiting routine is left by its first call of inkey
\* (none is ever found waiting for a second key); and the call of inkey of
\* executeInputCommands ends both the loop of executeInputCommands and the
\* loop of playDungeon.
C33_TerminatesAtEndOfInput ==
    /\ <>(pc = "exited")
    /\ [](eof_flag <= 101 /\ pc \notin WaitLoops)
    /\ [][InkeyCalled => eof_flag' = eof_flag + 1]_vars
    /\ [][InkeyCalled /\ pc = "executeInputCommands" =>
             pc' \in {"idle", "exited"}]_vars

\* The game was left by the 101st end of the input, seen by the command
\* loop after 101 calls of inkey.
C33_Witness ==
    /\ pc = "exited"
    /\ last = "executeInputCommands"
    /\ eof_flag = 101
    /\ keys_read = 101

\* The loop of playDungeon was left after a call of inkey that returned
\* ESCAPE.
C33_WitnessLoopLeft ==
    /\ pc = "idle"
    /\ last = "executeInputCommands"
    /\ lastInputCommand = "ESCAPE"
    /\ eof_flag = 1

--------------------------------------------------------------------------
(* Claims about the timers of a turn (SpecTimers, SpecTurn). *)

\* The status timers other than the resting counter.
StatusTimers ==
    {"hero", "shero", "blind", "confused", "afraid", "poisoned", "fast", "slow",
     "image", "paralysis", "protevil", "invuln", "blessed", "resist_heat",
     "resist_cold", "detect_inv", "tim_infra", "word_recall"}

\* C34: every status timer other than the resting counter stays >= 0:
\* starting from timers that are not negative, after any sequence of
\* per-turn updates, with any combination of heroism, super-heroism and
\* fear, none of the timers is negative.
C34_TimersNeverNegative == \A t \in StatusTimers : flags[t] >= 0

\* No timer but the fear timer is ever negative, and the fear timer is never
\* below -1.
T34_OnlyFearNegative ==
    /\ \A t \in StatusTimers \ {"afraid"} : flags[t] >= 0
    /\ flags.afraid >= -1

\* The fear timer becomes negative only in the fear update of a hero whose
\* fear had not shown yet, and once negative it stays so.
T34_NegativeFromHiddenFear ==
    [][/\ flags.afraid >= 0 /\ flags'.afraid < 0 =>
             /\ last' = "playerUpdateFearState"
             /\ flags.afraid > 0
             /\ "PY_FEAR" \notin status
             /\ flags.hero + flags.shero > 0
       /\ flags.afraid < 0 => flags'.afraid = flags.afraid]_vars

\* A turn has ended with the fear timer of a hero at -1.
T34_Witness ==
    /\ pc = "command"
    /\ flags.afraid = -1
    /\ "PY_FEAR" \notin status

\* The step just taken was the poll step of a turn.
PollStep == last' = "checkForNonBlockingKeyPress"

\* The terminal was polled in the step, with either interval.
Polled(o) ==
    Times(o, <<"checkForNonBlockingKeyPress", 0>>)
       + Times(o, <<"checkForNonBlockingKeyPress", 10000>>)

\* C35 (as stated): the poll in the middle of the turn raises a disturb
\* whenever a key is pending: if a key is waiting at the poll step then
\* disturb(0,0) is raised.
C35_PollDisturbsWheneverKeyPending ==
    [][PollStep /\ Emitted(out', <<"key_waiting", TRUE>>) =>
          Emitted(out', <<"disturb", 0, 0>>)]_vars

\* C35 (amended): the terminal is polled in the middle of the turn only
\* while a repeat count is pending, the player is running or the player is
\* resting: then it is polled once, without delay on a run and for 10000
\* microseconds otherwise, and disturb(0,0) is raised, ending the count,
\* the run and the rest, exactly if a key is waiting. With no count, run or
\* rest the terminal is not polled and a waiting key raises no disturb. The
\* poll never reads the key: the keys read and the command are unchanged.
C35_PollDisturbsWhileBusy ==
    [][PollStep =>
          LET busy == command_count > 0 \/ running_counter # 0 \/ flags.rest # 0
              waiting == Emitted(out', <<"key_waiting", TRUE>>)
          IN  /\ Polled(out') = (IF busy THEN 1 ELSE 0)
              /\ busy =>
                    Emitted(out', <<"checkForNonBlockingKeyPress",
                                    IF running_counter # 0 THEN 0 ELSE 10000>>)
              /\ Emitted(out', <<"disturb", 0, 0>>) <=> (busy /\ waiting)
              /\ busy /\ waiting =>
                    /\ command_count' = 0
                    /\ running_counter' = 0
                    /\ flags'.rest = 0
              /\ ~(busy /\ waiting) =>
                    /\ command_count' = command_count
                    /\ running_counter' = running_counter
                    /\ flags' = flags
              /\ UNCHANGED <<keys_read, typed, lastInputCommand, eof_flag>>]_vars

\* A key that waited ended a run at the poll, made without delay.
C35_Witness ==
    /\ last = "checkForNonBlockingKeyPress"
    /\ out = << <<"key_waiting", TRUE>>, <<"checkForNonBlockingKeyPress", 0>>,
                <<"disturb", 0, 0>> >>
    /\ running_counter = 0

\* A key that waited ended a repeat count at the poll.
C35_WitnessCount ==
    /\ last = "checkForNonBlockingKeyPress"
    /\ Emitted(out, <<"checkForNonBlockingKeyPress", 10000>>)
    /\ Emitted(out, <<"disturb", 0, 0>>)
    /\ flags.rest = 0
    /\ "PY_REST" \notin status
    /\ ~Emitted(out, <<"rest_off">>)

\* A key waited and the player, who was doing nothing, was not disturbed.
C35_WitnessIdle ==
    /\ last = "checkForNonBlockingKeyPress"
    /\ out = << <<"key_waiting", TRUE>> >>

\* The positions of a turn after the word of recall and up to the decision
\* whether a command is accepted.
AfterRecall ==
    {"teleport", "check_strength", "playerUpdateStatusFlags",
     "playerDetectEnchantment", "compact_monsters", "executeInputCommands"}

C36_WitnessMove ==
    /\ last = "command"
    /\ ~generate_new_level
    /\ Emitted(out, <<"updateMonsters", TRUE>>)

\* The step just taken was the light step of a turn.
LightStep == last' = "playerUpdateLightStatus"

\* The step raised disturb(0, 1) and relit the creatures.
LightEdge(o) == Emitted(o, <<"disturb", 0, 1>>) /\ Emitted(o, <<"updateMonsters", FALSE>>)

\* C37: after every call of playerUpdateLightStatus, player_carrying_light
\* is true if and only if the fuel of the light (p1) is above 0, whatever
\* the flag and the fuel (>= 0) were before; the light-on and light-out
\* transitions (disturb and relighting of the creatures) happen only with a
\* change of the flag, and the warning of low fuel only while lit, with
\* 0 < fuel < 40 and the player not blind.
C37_LightIffFuel ==
    [][LightStep =>
          /\ globals'.player_carrying_light <=> globals'.light_p1 > 0
          /\ LightEdge(out') =>
                globals'.player_carrying_light # globals.player_carrying_light
          /\ Emitted(out', <<"msg", "Your light is growing faint.">>) =>
                /\ globals'.player_carrying_light
                /\ globals'.light_p1 > 0 /\ globals'.light_p1 < 40
                /\ flags.blind < 1]_vars

\* The same but for a light that is off with one turn of fuel left: the
\* flag and the fuel agree after every other call, the transitions happen
\* exactly with a change of the flag, and the warning only while lit with
\* 0 < fuel < 40 and the player not blind.
T37_LightIffFuelButLastTurn ==
    [][LightStep =>
          /\ ~(~globals.player_carrying_light /\ globals.light_p1 = 1) =>
                (globals'.player_carrying_light <=> globals'.light_p1 > 0)
          /\ ~globals.player_carrying_light /\ globals.light_p1 = 1 =>
                globals'.player_carrying_light /\ globals'.light_p1 = 0
          /\ LightEdge(out') <=>
                globals'.player_carrying_light # globals.player_carrying_light
          /\ Emitted(out', <<"msg", "Your light is growing faint.">>) =>
                /\ globals'.player_carrying_light
                /\ globals'.light_p1 > 0 /\ globals'.light_p1 < 40
                /\ flags.blind < 1]_vars

\* A light with one turn of fuel was lit: it is on with no fuel.
T37_Witness ==
    /\ last = "playerUpdateLightStatus"
    /\ globals.player_carrying_light
    /\ globals.light_p1 = 0
    /\ Emitted(out, <<"disturb", 0, 1>>)

\* The warning of low fuel was given.
T37_WitnessFaint ==
    /\ last = "playerUpdateLightStatus"
    /\ Emitted(out, <<"msg", "Your light is growing faint.">>)
    /\ globals.light_p1 = 2

\* The step just taken was the enchantment step of a turn.
DetectStep == last' = "playerDetectEnchantment"

\* How many times the scan looked at the slot.
Looks(o, i) == Times(o, <<"examine", i, 50>>) + Times(o, <<"examine", i, 10>>)

\* The slots the scan looked at, and those whose item it marked.
Examined(o) == {i \in Slots : Looks(o, i) > 0}
Marked(o) == {i \in Slots : Emitted(o, <<"add_inscribe", i, "ID_MAGIK">>)}

\* C38: the scan for enchantments runs only on turns whose number is a
\* multiple of 16 and while the player is not confused; when it runs it
\* looks at exactly the slots 0 .. inventory_count - 1 of the pack and the
\* slots 22 .. INVEN_ARRAY_SIZE - 1 of the equipment, each once, and never
\* at a slot from inventory_count to 21; and it never marks an item that is
\* cursed, identified, marked ID_MAGIK already, or without a good
\* enchantment. Nothing but the mark of a sensed item changes.
C38_EnchantmentScan ==
    [][DetectStep =>
          LET g == globals
              ex == Examined(out')
          IN  /\ ex # {} =>
                    /\ current_game_turn % 16 = 0
                    /\ flags.confused = 0
                    /\ ex = {i \in Slots : i < g.inventory_count \/ i >= 22}
              /\ ex = {} => out' = <<>>
              /\ \A i \in Slots : Looks(out', i) <= 1
              /\ \A i \in Slots :
                    IF i \in Marked(out')
                    THEN LET t == g.inventory[i]
                         IN  /\ i \in ex
                             /\ t.tval = "TV_SWORD"
                             /\ ~t.cursed /\ ~t.identified /\ ~t.magik
                             /\ \/ t.tohit > 0 \/ t.todam > 0 \/ t.toac > 0
                                \/ t.stat_flags /\ t.p1 > 0
                                \/ t.power_flags
                             /\ globals'.inventory[i] = [t EXCEPT !.magik = TRUE]
                    ELSE globals'.inventory[i] = g.inventory[i]]_vars

\* On turn 16 the scan of a pack of two looked at the slots 0, 1 and 22 to
\* 33 and marked the second item of the pack and the weapon wielded, for
\* their powers and bonus; the cursed item in the last slot was not marked.
C38_Witness ==
    /\ last = "playerDetectEnchantment"
    /\ current_game_turn = 16
    /\ globals.inventory_count = 2
    /\ Examined(out) = {0, 1} \cup (22 .. 33)
    /\ Marked(out) = {0, 1, 22}
    /\ globals.inventory[1].magik /\ globals.inventory[1].power_flags
    /\ globals.inventory[33].cursed /\ ~globals.inventory[33].magik

\* The scan of a full pack looked at all 34 slots and sensed nothing in
\* items that are identified.
C38_WitnessFull ==
    /\ last = "playerDetectEnchantment"
    /\ globals.inventory_count = 22
    /\ Examined(out) = Slots
    /\ Marked(out) = {}
    /\ globals.inventory[0].identified

\* A confused player's turn 16 passed without a scan.
C38_WitnessConfused ==
    /\ last = "playerDetectEnchantment"
    /\ current_game_turn = 16
    /\ flags.confused > 0
    /\ out = <<>>

--------------------------------------------------------------------------
(* Claims about jamdoor (SpecJam). *)

\* The step just taken drove a spike into the door.
Spiked == last' = "jamdoor" /\ globals'.spikes = globals.spikes - 1

\* The strength of the jam: the magnitude of p1.
Magnitude(p1) == IF p1 < 0 THEN 0 - p1 ELSE p1

\* The series of the comment in jamdoor, and the series of its arithmetic.
DocumentedSeries == <<0, 20, 30, 37, 43, 48, 52, 56, 60, 64, 67, 70>>
ComputedSeries == <<0, 20, 27, 33, 38, 42, 46, 50, 54, 57, 60, 63>>

\* What a spike adds to a jam of magnitude m.
SpikeGain(m) == 1 + 190 \div (10 + m)

\* Each spike takes the magnitude from one entry of the series to the next.
FollowsSeries(series) ==
    \A k \in 1 .. Len(series) - 1 :
       Spiked /\ globals.door.p1 = 0 - series[k] =>
          globals'.door.p1 = 0 - series[k + 1]

\* C39: spiking a door has the documented progressively smaller effect: from
\* an unlocked closed door (p1 = 0) the magnitude of p1 after successive
\* spikes follows the series 0, 20, 30, 37, 43, 48, 52, 56, 60, 64, 67, 70;
\* each spike increases the magnitude, by no more than the spike before
\* it would; a locked door (p1 > 0) is first made a stuck one by negating
\* p1.
C39_SpikeSeries ==
    [][/\ FollowsSeries(DocumentedSeries)
       /\ Spiked =>
             LET before == Magnitude(globals.door.p1)
                 after == Magnitude(globals'.door.p1)
             IN  /\ globals'.door.p1 < 0
                 /\ after > before
                 /\ SpikeGain(after) <= after - before]_vars

\* What the arithmetic gives: the series is 0, 20, 27, 33, 38, 42, 46, 50,
\* 54, 57, 60, 63; each spike adds 1 + 190 / (10 + m) to the magnitude m
\* of a door that is stuck or, negated first, locked, which is at least 1
\* and never more than the spike before added; nothing but a spike changes
\* the door, and a spike is used only on a closed door with no creature in
\* the doorway.
T39_ComputedSeries ==
    [][/\ FollowsSeries(ComputedSeries)
       /\ Spiked =>
             LET before == Magnitude(globals.door.p1)
                 after == Magnitude(globals'.door.p1)
             IN  /\ globals'.door.p1 < 0
                 /\ after = before + SpikeGain(before)
                 /\ SpikeGain(after) <= after - before
                 /\ after - before >= 1
                 /\ globals.door.tval = "TV_CLOSED_DOOR"
                 /\ globals.door.cptr = 0
                 /\ ~player_free_turn'
       /\ ~Spiked => globals'.door = globals.door]_vars

\* The second spike in an unlocked door: the magnitude is 27, not 30.
T39_Witness ==
    /\ last = "jamdoor"
    /\ globals.spikes = MaxSpikes - 2
    /\ globals.door.p1 = -27

\* The eleventh spike: the magnitude is 63, not 70.
T39_WitnessEleven ==
    /\ last = "jamdoor"
    /\ globals.spikes = 0
    /\ globals.door.p1 = -63

\* A spike in a door locked with strength 5: p1 is -5 - 13.
T39_WitnessLocked ==
    /\ last = "jamdoor"
    /\ globals.spikes = 0
    /\ globals.door.p1 = -18

====
